---- MODULE Spec2Model ----
(***************************************************************************)
(* Support/Resistance zone detection and sticky level tracking             *)
(* (src/src/domain/etl/analyzers/breakout_analyzer.py, BreakoutAnalyzer).  *)
(*                                                                         *)
(* Numbers.  Prices, levels and ATR values are integers.  Percentages are  *)
(* kept in hundredths of a percent (0.25 % is 25, 5 % is 500), ATR         *)
(* multipliers and hysteresis_ratio in hundredths (1.2 is 120, 0.25 is     *)
(* 25).  Every comparison of the code is multiplied out so that it is      *)
(* exact on these integers.                                                *)
(***************************************************************************)
EXTENDS Integers, Sequences, FiniteSets, TLC

VARIABLES
    cfg,          \* the constructor arguments kept on self (lines 92-115)
    df,           \* self.df input columns: sequence of [High, Low, Close]
    atr14,        \* self._atr14 as returned by ta.atr: per candle, NaN or a value
    clusters,     \* [sup, res]: the two results of _cluster_pivots (lines 364-365)
    pc,           \* position of the run
    tuning,       \* locals of _build_zones, lines 345-352: the adaptive configuration
    scan_log,     \* per base zone, the arguments and band of its _find_break_index call
    base_zones,   \* local `zones` of _build_zones before the polarity block (line 386)
    built_zones,  \* local `zones` handed to _merge_close_breaks (line 426)
    zones,        \* the final zone list: result of _build_zones, argument of _assign_sticky
    i,            \* loop index of the sweep (line 521): next candle to process
    active_sup,   \* local active_sup (line 476)
    active_res,   \* local active_res (line 477)
    prev_sup,     \* local prev_sup (line 478): per-slot memory
    prev_res,     \* local prev_res (line 479)
    last_sup,     \* prev_sup as it was when the last processed candle began
    last_res,     \* prev_res as it was when the last processed candle began
    pool_sup,     \* local sup_cands at the start of each slot k of the last candle
    pool_res,     \* local res_cands at the start of each slot k of the last candle
    out_sup,      \* columns zone_support_1..max_zones, one row per processed candle
    out_res,      \* columns zone_resistance_1..max_zones
    main_sup,     \* column main_support
    main_res,     \* column main_resistance
    scan,         \* one stand-alone call of _find_break_index: arguments and result
    clustering,   \* one stand-alone call of _cluster_pivots, and one more on its centers
    is_pivot,     \* column isPivot of self.df
    df_index,     \* self.df.index
    df_object,    \* the table object self.df refers to: the caller's or a copy
    caller,       \* the caller's candle table as constructed: [index, candles]
    result,       \* the table analyze returned, <<>> before it returns
    runs,         \* the invocations that have returned: their arguments and result
    signal,       \* argument of handle_signal / compute_order_size
    portfolio,    \* what broker.get_portfolio answers
    current_weights,  \* the active target weight of the signal's symbol, if any
    lastest_price,    \* what extractor.get_lastest_price answers for the symbol
    order_size,   \* local order_size of handle_signal (line 33)
    calls,        \* the collaborators' methods handle_signal has called, in order
    error,        \* the call that raised, "" when none has
    committed,    \* records committed to the database
    outcome       \* how handle_signal ended: "returned" or "raised"; "" before

input_vars == <<cfg, df, atr14, clusters>>

build_vars == <<tuning, scan_log, base_zones, built_zones, zones>>

sweep_vars == <<i, active_sup, active_res, prev_sup, prev_res, last_sup, last_res,
                pool_sup, pool_res, out_sup, out_res>>

frame_vars == <<is_pivot, df_index, df_object, caller, result, runs>>

trade_vars == <<signal, portfolio, current_weights, lastest_price, order_size, calls,
                error, committed, outcome>>

vars == <<input_vars, build_vars, sweep_vars, pc, main_sup, main_res, scan, clustering,
          frame_vars, trade_vars>>

\* no signal is being handled
NoTrade ==
    /\ signal = <<>>
    /\ portfolio = <<>>
    /\ current_weights = <<>>
    /\ lastest_price = <<>>
    /\ order_size = <<>>
    /\ calls = <<>>
    /\ error = ""
    /\ committed = {}
    /\ outcome = ""

(***************************************************************************)
(* Bounds of the model                                                     *)
(***************************************************************************)
MaxN == 2        \* candles of the series swept by the sticky assignment
MaxZ == 3        \* zones in the list handed to the sticky assignment
MaxSlots == 2    \* largest max_zones

(***************************************************************************)
(* Arithmetic helpers                                                      *)
(***************************************************************************)
NaN == -1

IsNa(x) == x = NaN

Abs(x) == IF x < 0 THEN -x ELSE x

Max2(a, b) == IF a >= b THEN a ELSE b

Min2(a, b) == IF a <= b THEN a ELSE b

\* index of the first TRUE of a sequence of booleans, 0 when there is none
FirstTrue(hits) ==
    IF \E j \in 1..Len(hits) : hits[j]
    THEN CHOOSE j \in 1..Len(hits) : hits[j] /\ \A m \in 1..(j - 1) : ~hits[m]
    ELSE 0

\* list.remove(z): drops the first element equal to z, ValueError swallowed
RemoveFirst(s, z) ==
    LET j == FirstTrue([m \in 1..Len(s) |-> s[m] = z])
    IN IF j = 0 THEN s
       ELSE SubSeq(s, 1, j - 1) \o SubSeq(s, j + 1, Len(s))

(***************************************************************************)
(* Zone (lines 16-33) and the constructor's defaults (lines 56-80)         *)
(***************************************************************************)
Zone(type, value, x0, x1, count, is_reversal) ==
    [type |-> type, value |-> value, x0 |-> x0, x1 |-> x1,
     count |-> count, is_reversal |-> is_reversal]

DefaultCfg ==
    [timeframe |-> "5m", pivot_window |-> 10, max_zones |-> 3,
     use_close_only |-> FALSE,
     confirmation_candles |-> 3, band_mode |-> "atr", band_pct |-> 20,
     band_atr_mult |-> 100, merge_breaks_min_sep |-> 5,
     level_tol_pct |-> 5, hysteresis_ratio |-> 25,
     enable_polarity |-> TRUE, polarity_cooldown |-> 0,
     eternal_polarity |-> FALSE]

n == Len(df)

\* price = self.df[close_col].to_numpy() (line 473), candle index from 0
price(ii) == df[ii + 1].Close

(***************************************************************************)
(* Sticky assignment (lines 436-577)                                       *)
(***************************************************************************)
\* a comparison under which no two values are the same level
same_level_never(a, b) == FALSE

\* _same_level: |a - b| <= max(a, b) * level_tol_pct / 100
same_level(a, b) ==
    IF IsNa(a) \/ IsNa(b) THEN FALSE
    ELSE 10000 * Abs(a - b) <= Max2(a, b) * cfg.level_tol_pct

\* by_end with the zones dropped one candle late
by_end_late(zs, ii) == SelectSeq(zs, LAMBDA z : z.x1 = ii - 1)

\* by_start with the zones taken in one candle late
by_start_late(zs, ii) == SelectSeq(zs, LAMBDA z : z.x0 = ii - 1)

\* _bucket_zones: by_start.get(ii, []) and by_end.get(ii, []), list order kept
by_start(zs, ii) == SelectSeq(zs, LAMBDA z : z.x0 = ii)

by_end(zs, ii) == SelectSeq(zs, LAMBDA z : z.x1 = ii)

\* the sort key without the strength: (distance, value)
RankBefore_distance(a, b) ==
    \/ a.distance < b.distance
    \/ a.distance = b.distance /\ a.value < b.value

\* the sort key (-count, distance, value) of rank_candidates
RankBefore(a, b) ==
    \/ a.count > b.count
    \/ a.count = b.count /\ a.distance < b.distance
    \/ a.count = b.count /\ a.distance = b.distance /\ a.value < b.value

\* list.sort is stable: x goes after every element that is not behind it
InsertRanked(sorted, x) ==
    LET j == FirstTrue([m \in 1..Len(sorted) |-> RankBefore(x, sorted[m])])
    IN IF j = 0 THEN Append(sorted, x)
       ELSE SubSeq(sorted, 1, j - 1) \o <<x>> \o SubSeq(sorted, j, Len(sorted))

RECURSIVE SortRanked(_)
SortRanked(s) ==
    IF s = <<>> THEN <<>>
    ELSE InsertRanked(SortRanked(SubSeq(s, 1, Len(s) - 1)), s[Len(s)])

rank_candidates(active, ii) ==
    SortRanked([j \in 1..Len(active) |->
                  [value |-> active[j].value, count |-> active[j].count,
                   distance |-> Abs(active[j].value - price(ii))]])

\* choose_sticky without the stickiness: always the best candidate
choose_sticky_best(prev_level, cands, ii) ==
    IF cands = <<>> THEN NaN ELSE cands[1].value

\* choose_sticky with a hysteresis that acts: the previous level is kept when
\* the best candidate does not improve the distance by hysteresis_ratio
choose_sticky_hysteresis(prev_level, cands, ii) ==
    LET same == FirstTrue([j \in 1..Len(cands) |-> same_level(prev_level, cands[j].value)])
        prev_dist == Abs(prev_level - price(ii))
    IN IF cands = <<>> THEN NaN
       ELSE IF same # 0 THEN cands[same].value
       ELSE IF /\ ~IsNa(prev_level)
               /\ 100 * cands[1].distance >= (100 - cfg.hysteresis_ratio) * prev_dist
            THEN prev_level
       ELSE cands[1].value

\* choose_sticky that clears the slot when its level has no candidate left
choose_sticky_drop(prev_level, cands, ii) ==
    LET same == FirstTrue([j \in 1..Len(cands) |-> same_level(prev_level, cands[j].value)])
    IN IF cands = <<>> \/ same = 0 THEN NaN ELSE cands[same].value

\* choose_sticky (lines 490-519); hysteresis_ratio in hundredths
choose_sticky(prev_level, cands, ii) ==
    LET same == FirstTrue([j \in 1..Len(cands) |-> same_level(prev_level, cands[j].value)])
        prev_dist == Abs(prev_level - price(ii))
    IN IF cands = <<>> THEN NaN
       ELSE IF same # 0 THEN cands[same].value
       ELSE IF /\ ~IsNa(prev_level)
               /\ 100 * cands[1].distance >= (100 - cfg.hysteresis_ratio) * prev_dist
               /\ same # 0
            THEN cands[same].value
       ELSE cands[1].value

\* one pass of the slot loop (lines 537-552 and 555-569), from slot k on:
\* vals are the values written, pools the candidate list each slot started with
RECURSIVE assign_slots(_, _, _, _, _)
assign_slots(k, cands, used, prev, ii) ==
    IF k > cfg.max_zones THEN [vals |-> <<>>, pools |-> <<>>]
    ELSE LET val == IF cands = <<>> THEN NaN
                    ELSE IF IsNa(prev[k]) THEN cands[1].value
                    ELSE choose_sticky(prev[k], cands, ii)
             hit == FirstTrue([j \in 1..Len(cands) |-> same_level(val, cands[j].value)])
             used1 == IF hit = 0 THEN used ELSE Append(used, cands[hit].value)
             cands1 == SelectSeq(cands, LAMBDA c :
                           ~\E u \in 1..Len(used1) : same_level(c.value, used1[u]))
             rest == assign_slots(k + 1, cands1, used1, prev, ii)
         IN [vals |-> <<val>> \o rest.vals, pools |-> <<cands>> \o rest.pools]

RECURSIVE RemoveEach(_, _)
RemoveEach(active, gone) ==
    IF gone = <<>> THEN active
    ELSE RemoveEach(RemoveFirst(active, gone[1]), Tail(gone))

\* lines 521-530: the active list of one side after the bucket maintenance
sweep_active(active, side, ii) ==
    RemoveEach(active \o SelectSeq(by_start(zones, ii), LAMBDA z : z.type = side),
               SelectSeq(by_end(zones, ii - 1), LAMBDA z : z.type = side))

\* the first slot holding a value, whatever its distance
nearest_row_first(row, close) ==
    LET best == FirstTrue([k \in 1..Len(row) |-> ~IsNa(row[k])])
    IN IF best = 0 THEN row[1] ELSE row[best]

\* _nearest_level for one row: argmin picks the first slot on ties
nearest_row(row, close) ==
    LET Dist(k) == Abs(row[k] - close)
        best == FirstTrue([k \in 1..Len(row) |->
                    /\ ~IsNa(row[k])
                    /\ \A m \in 1..Len(row) : ~IsNa(row[m]) => Dist(k) <= Dist(m)])
    IN IF best = 0 THEN row[1] ELSE row[best]

nearest_level(values) ==
    IF \E r \in 1..Len(values) : \E k \in 1..Len(values[r]) : ~IsNa(values[r][k])
    THEN [r \in 1..Len(values) |-> nearest_row(values[r], price(r - 1))]
    ELSE [r \in 1..Len(values) |-> NaN]

NoSlots == [k \in 1..cfg.max_zones |-> NaN]

\* one iteration of the sweep loop for candle i (lines 521-569)
SweepCandle ==
    /\ pc = "sweep"
    /\ i < n
    /\ LET a_sup == sweep_active(active_sup, -1, i)
           a_res == sweep_active(active_res, 1, i)
           sup == assign_slots(1, rank_candidates(a_sup, i), <<>>, prev_sup, i)
           res == assign_slots(1, rank_candidates(a_res, i), <<>>, prev_res, i)
       IN /\ active_sup' = a_sup
          /\ active_res' = a_res
          /\ out_sup' = [out_sup EXCEPT ![i + 1] = sup.vals]
          /\ out_res' = [out_res EXCEPT ![i + 1] = res.vals]
          /\ prev_sup' = sup.vals
          /\ prev_res' = res.vals
          /\ pool_sup' = sup.pools
          /\ pool_res' = res.pools
    /\ last_sup' = prev_sup
    /\ last_res' = prev_res
    /\ i' = i + 1
    /\ UNCHANGED <<input_vars, clustering, frame_vars, trade_vars,
                   build_vars, pc, main_sup, main_res, scan>>

\* lines 571-577, after the loop: main_support / main_resistance
NearestLevels ==
    /\ pc = "sweep"
    /\ i = n
    /\ main_sup' = nearest_level(out_sup)
    /\ main_res' = nearest_level(out_res)
    /\ pc' = "done"
    /\ UNCHANGED <<input_vars, clustering, frame_vars, trade_vars,
                   build_vars, sweep_vars, scan>>

\* analyze, lines 585-586: with no zone the sticky assignment is not run
SkipSticky ==
    /\ pc = "zones"
    /\ zones = <<>>
    /\ pc' = "done"
    /\ UNCHANGED <<input_vars, clustering, frame_vars, trade_vars,
                   build_vars, sweep_vars, main_sup, main_res, scan>>

\* analyze, lines 585-586: _assign_sticky starts (lines 472-479)
StartSticky ==
    /\ pc = "zones"
    /\ zones # <<>>
    /\ pc' = "sweep"
    /\ i' = 0
    /\ active_sup' = <<>>
    /\ active_res' = <<>>
    /\ prev_sup' = NoSlots
    /\ prev_res' = NoSlots
    /\ UNCHANGED <<input_vars, clustering, frame_vars, trade_vars,
                   build_vars, last_sup, last_res, pool_sup, pool_res,
                   out_sup, out_res, main_sup, main_res, scan>>

(***************************************************************************)
(* Adaptive configuration (lines 131-162)                                  *)
(***************************************************************************)
\* _token_config on twice the median close m2 (a median of an even number of
\* closes is a half); prices are in hundredths, so 1.0 is 100
token_config(m2) ==
    IF 10 * m2 < 2 THEN [cluster_zone_pct |-> 300, break_zone_pct |-> 200, min_pivots |-> 2]
    ELSE IF m2 < 200 THEN [cluster_zone_pct |-> 200, break_zone_pct |-> 100, min_pivots |-> 2]
    ELSE IF m2 < 20000 THEN [cluster_zone_pct |-> 150, break_zone_pct |-> 100, min_pivots |-> 3]
    ELSE [cluster_zone_pct |-> 100, break_zone_pct |-> 80, min_pivots |-> 3]

Raised(confirm, band_pct, band_atr_mult) ==
    [confirm |-> Max2(cfg.confirmation_candles, confirm),
     band_pct |-> Max2(cfg.band_pct, band_pct),
     band_atr_mult |-> Max2(cfg.band_atr_mult, band_atr_mult)]

tf_tuning ==
    IF cfg.timeframe \in {"1s", "1m", "5m"} THEN Raised(3, 25, 120)
    ELSE IF cfg.timeframe \in {"15m", "1h"} THEN Raised(2, 20, 100)
    ELSE IF cfg.timeframe \in {"4h", "1d"} THEN Raised(2, 15, 90)
    ELSE IF cfg.timeframe \in {"1w", "1mn"} THEN Raised(1, 10, 80)
    ELSE [confirm |-> cfg.confirmation_candles, band_pct |-> cfg.band_pct,
          band_atr_mult |-> cfg.band_atr_mult]

RECURSIVE SortNums(_)
SortNums(s) ==
    IF s = <<>> THEN <<>>
    ELSE LET j == CHOOSE a \in 1..Len(s) : \A b \in 1..Len(s) : s[a] <= s[b]
         IN <<s[j]>> \o SortNums(SubSeq(s, 1, j - 1) \o SubSeq(s, j + 1, Len(s)))

\* twice self.df[close_col].median() (line 345)
median2 ==
    LET c == SortNums([j \in 1..n |-> df[j].Close])
    IN IF n % 2 = 1 THEN 2 * c[(n + 1) \div 2]
       ELSE c[n \div 2] + c[n \div 2 + 1]

(***************************************************************************)
(* Clusterer (lines 226-251)                                               *)
(* Pivot values are integers chosen so that every mean taken is one too.   *)
(***************************************************************************)
RECURSIVE Sum(_)
Sum(s) == IF s = <<>> THEN 0 ELSE s[1] + Sum(Tail(s))

\* np.mean
mean(c) == Sum(c) \div Len(c)

\* line 243: abs(v - ref) / max(ref, 1e-9) <= cluster_pct / 100, cluster_pct in
\* hundredths of a percent; against 1e-9 only v = ref passes on integers
near(v, ref, cluster_pct) ==
    IF ref > 0 THEN 10000 * Abs(v - ref) <= cluster_pct * ref
    ELSE v = ref

\* the center reported as the largest value of the cluster
cluster_center_last(c) == c[Len(c)]

\* line 251: the center of a cluster
cluster_center(c) == mean(c)

\* the loop of lines 241-247 from sorted_vals[k] on, then lines 248-249
RECURSIVE cluster_from(_, _, _, _, _)
cluster_from(sorted_vals, k, current, done, cluster_pct) ==
    IF k > Len(sorted_vals) THEN Append(done, current)
    ELSE IF near(sorted_vals[k], mean(current), cluster_pct)
         THEN cluster_from(sorted_vals, k + 1, Append(current, sorted_vals[k]),
                           done, cluster_pct)
         ELSE cluster_from(sorted_vals, k + 1, <<sorted_vals[k]>>,
                           Append(done, current), cluster_pct)

\* _cluster_pivots: the list of (center, count)
cluster_pivots(values, cluster_pct) ==
    IF values = <<>> THEN <<>>
    ELSE LET groups == cluster_from(SortNums(values), 2, <<SortNums(values)[1]>>,
                                    <<>>, cluster_pct)
         IN [j \in 1..Len(groups) |->
               [center |-> cluster_center(groups[j]), count |-> Len(groups[j])]]

(***************************************************************************)
(* Breakout scanner (lines 253-309)                                        *)
(***************************************************************************)
\* min_band_abs = 1e-12 is below the resolution of the integer prices:
\* price > level + 1e-12 iff price > level
MinBandAbs == 0

\* band_vals after fillna and clip (lines 277-285), times 10000;
\* edge_pct is the percentage in hundredths, the /100.0 of line 350 included
band_vals(level, edge_pct) ==
    IF cfg.band_mode = "atr"
    THEN [j \in 1..n |-> IF IsNa(atr14[j]) THEN MinBandAbs
                         ELSE Max2(atr14[j] * cfg.band_atr_mult * 100, MinBandAbs)]
    ELSE [j \in 1..n |-> Max2(level * edge_pct, MinBandAbs)]

\* lines 287-290
prices(direction, ii) ==
    IF cfg.use_close_only THEN df[ii + 1].Close
    ELSE IF direction = "up" THEN df[ii + 1].High ELSE df[ii + 1].Low

\* lines 294-300
broken(level, direction, band, ii) ==
    IF direction = "up"
    THEN 10000 * prices(direction, ii) > 10000 * level + band[ii + 1]
    ELSE 10000 * prices(direction, ii) < 10000 * level - band[ii + 1]

\* the result without the clamp to start
break_result_unclamped(start, ii, confirmation_candles) == ii - confirmation_candles

\* the result not backdated: the confirming candle itself
break_result_confirming(start, ii, confirmation_candles) == ii

\* the value returned at the confirming candle ii (line 305)
break_result(start, ii, confirmation_candles) == Max2(start, ii - confirmation_candles)

\* the loop with a counter that a non-breaking candle does not reset
RECURSIVE scan_from_noreset(_, _, _, _, _, _, _)
scan_from_noreset(ii, count, level, direction, start, band, confirmation_candles) ==
    IF ii >= n THEN n - 1
    ELSE IF broken(level, direction, band, ii)
         THEN IF count + 1 >= confirmation_candles
              THEN break_result(start, ii, confirmation_candles)
              ELSE scan_from_noreset(ii + 1, count + 1, level, direction, start,
                                     band, confirmation_candles)
         ELSE scan_from_noreset(ii + 1, count, level, direction, start, band,
                                confirmation_candles)

\* the loop of lines 292-309 from candle ii on, count breaking candles so far;
\* band is band_vals, computed once before the loop
RECURSIVE scan_from(_, _, _, _, _, _, _)
scan_from(ii, count, level, direction, start, band, confirmation_candles) ==
    IF ii >= n THEN n - 1
    ELSE IF broken(level, direction, band, ii)
         THEN IF count + 1 >= confirmation_candles
              THEN break_result(start, ii, confirmation_candles)
              ELSE scan_from(ii + 1, count + 1, level, direction, start, band,
                             confirmation_candles)
         ELSE scan_from(ii + 1, 0, level, direction, start, band,
                        confirmation_candles)

find_break_index(level, direction, start, edge_pct, confirmation_candles) ==
    IF start >= n THEN n - 1
    ELSE scan_from(start, 0, level, direction, start, band_vals(level, edge_pct),
                   confirmation_candles)

(***************************************************************************)
(* Zone builder (lines 311-432)                                            *)
(***************************************************************************)
\* the order of sort_values(["x1", "type", "value"])
SortKeyBefore(a, b) ==
    \/ a.x1 < b.x1
    \/ a.x1 = b.x1 /\ a.type < b.type
    \/ a.x1 = b.x1 /\ a.type = b.type /\ a.value < b.value

InsertZone(sorted, z) ==
    LET j == FirstTrue([m \in 1..Len(sorted) |-> SortKeyBefore(z, sorted[m])])
    IN IF j = 0 THEN Append(sorted, z)
       ELSE SubSeq(sorted, 1, j - 1) \o <<z>> \o SubSeq(sorted, j, Len(sorted))

RECURSIVE sort_values(_)
sort_values(zs) ==
    IF zs = <<>> THEN <<>>
    ELSE InsertZone(sort_values(SubSeq(zs, 1, Len(zs) - 1)), zs[Len(zs)])

\* line 323-324: abs(curr - prev) / max(curr, 1e-9) < 0.01
same_lv(curr, prev) ==
    IF curr.value > 0 THEN 100 * Abs(curr.value - prev.value) < curr.value
    ELSE curr.value = prev.value

\* the loop of lines 320-332 from row idx on; rows is zdf, written in place
RECURSIVE merge_from(_, _, _)
merge_from(rows, keep, idx) ==
    IF idx > Len(rows)
    THEN [rows |-> rows, keep |-> keep]
    ELSE LET curr == rows[idx]
             prev == rows[idx - 1]
         IN IF /\ curr.type = prev.type
               /\ curr.x1 - prev.x1 <= cfg.merge_breaks_min_sep
               /\ same_lv(curr, prev)
            THEN merge_from([rows EXCEPT ![idx - 1].x1 = Max2(prev.x1, curr.x1)],
                            Append(keep, FALSE), idx + 1)
            ELSE merge_from(rows, Append(keep, TRUE), idx + 1)

RECURSIVE KeptRows(_, _)
KeptRows(rows, keep) ==
    IF rows = <<>> THEN <<>>
    ELSE (IF keep[1] THEN <<rows[1]>> ELSE <<>>) \o KeptRows(Tail(rows), Tail(keep))

merge_close_breaks(zdf) ==
    IF zdf = <<>> \/ cfg.merge_breaks_min_sep <= 0 THEN zdf
    ELSE LET m == merge_from(sort_values(zdf), <<TRUE>>, 2)
         IN KeptRows(m.rows, m.keep)

\* lines 374-385: one base zone per surviving cluster of a side
base_side(cl, type, direction, edge_pct, confirmation_candles) ==
    [j \in 1..Len(cl) |->
        Zone(type, cl[j].center, 0,
             find_break_index(cl[j].center, direction, 0, edge_pct,
                              confirmation_candles),
             cl[j].count, FALSE)]

\* the reversal zone with eternal_polarity ignored
reversal_scanned(z, edge_pct) ==
    LET start_rev == z.x1 + 1 + cfg.polarity_cooldown
        found == find_break_index(z.value, IF z.type = -1 THEN "up" ELSE "down",
                                  start_rev, edge_pct, 1)
    IN IF start_rev < n
       THEN <<Zone(IF z.type = -1 THEN 1 ELSE -1, z.value, start_rev, found,
                   z.count, TRUE)>>
       ELSE <<>>

\* the reversal zone scanned with the confirmation count of the base zones
reversal_tuned(z, edge_pct) ==
    LET start_rev == z.x1 + 1 + cfg.polarity_cooldown
        found == find_break_index(z.value, IF z.type = -1 THEN "up" ELSE "down",
                                  start_rev, edge_pct, tf_tuning.confirm)
        y1 == IF cfg.eternal_polarity THEN n - 1
              ELSE IF found = -1 THEN n - 1 ELSE found
    IN IF start_rev < n
       THEN <<Zone(IF z.type = -1 THEN 1 ELSE -1, z.value, start_rev, y1,
                   z.count, TRUE)>>
       ELSE <<>>

\* the reversal zone started right after the break, whatever the cooldown
reversal_no_cooldown(z, edge_pct) ==
    LET start_rev == z.x1 + 1
        found == find_break_index(z.value, IF z.type = -1 THEN "up" ELSE "down",
                                  start_rev, edge_pct, 1)
        y1 == IF cfg.eternal_polarity THEN n - 1
              ELSE IF found = -1 THEN n - 1 ELSE found
    IN IF start_rev < n
       THEN <<Zone(IF z.type = -1 THEN 1 ELSE -1, z.value, start_rev, y1,
                   z.count, TRUE)>>
       ELSE <<>>

\* lines 390-414: the reversal zone of z, if any
reversal(z, edge_pct) ==
    LET start_rev == z.x1 + 1 + cfg.polarity_cooldown
        found == find_break_index(z.value, IF z.type = -1 THEN "up" ELSE "down",
                                  start_rev, edge_pct, 1)
        y1 == IF cfg.eternal_polarity THEN n - 1
              ELSE IF found = -1 THEN n - 1 ELSE found
    IN IF start_rev < n
       THEN <<Zone(IF z.type = -1 THEN 1 ELSE -1, z.value, start_rev, y1,
                   z.count, TRUE)>>
       ELSE <<>>

RECURSIVE reversals(_, _)
reversals(zs, edge_pct) ==
    IF zs = <<>> THEN <<>>
    ELSE reversal(zs[1], edge_pct) \o reversals(Tail(zs), edge_pct)

\* the adaptive configuration with the band mode compared to "percentage"
adaptive_percentage ==
    [cluster_pct |-> token_config(median2).cluster_zone_pct,
     edge_pct |-> IF cfg.band_mode = "percentage" THEN tf_tuning.band_pct
                  ELSE token_config(median2).break_zone_pct,
     min_pivots |-> token_config(median2).min_pivots,
     confirmation_candles |-> tf_tuning.confirm]

\* lines 344-352
adaptive ==
    [cluster_pct |-> token_config(median2).cluster_zone_pct,
     edge_pct |-> IF cfg.band_mode = "pct" THEN tf_tuning.band_pct
                  ELSE token_config(median2).break_zone_pct,
     min_pivots |-> token_config(median2).min_pivots,
     confirmation_candles |-> tf_tuning.confirm]

ScanCall(z, direction, edge_pct, confirmation_candles) ==
    [level |-> z.value, direction |-> direction, start |-> 0,
     edge_pct |-> edge_pct, confirmation_candles |-> confirmation_candles,
     band_vals |-> band_vals(z.value, edge_pct)]

\* the filter letting every cluster through
survives_all(c, min_pivots) == TRUE

\* the filter with the threshold of the low-price profiles for every price
survives_two(c, min_pivots) == c.count >= 2

\* lines 366-368: a cluster is kept when it has min_pivots pivots
survives(c, min_pivots) == c.count >= min_pivots

\* _build_zones (lines 336-432), the clustering result being given
BuildZones ==
    /\ pc = "pivots"
    /\ pc' = "zones"
    /\ IF clusters.sup = <<>> /\ clusters.res = <<>>
       THEN /\ zones' = <<>>
            /\ UNCHANGED <<tuning, scan_log, base_zones, built_zones>>
       ELSE /\ tuning' = adaptive
            /\ LET sup == SelectSeq(clusters.sup,
                                    LAMBDA c : survives(c, tuning'.min_pivots))
                   res == SelectSeq(clusters.res,
                                    LAMBDA c : survives(c, tuning'.min_pivots))
               IN base_zones' =
                     base_side(sup, -1, "down", tuning'.edge_pct,
                               tuning'.confirmation_candles)
                     \o base_side(res, 1, "up", tuning'.edge_pct,
                                  tuning'.confirmation_candles)
            /\ scan_log' =
                  [j \in 1..Len(base_zones') |->
                      ScanCall(base_zones'[j],
                               IF base_zones'[j].type = -1 THEN "down" ELSE "up",
                               tuning'.edge_pct, tuning'.confirmation_candles)]
            /\ built_zones' =
                  IF cfg.enable_polarity
                  THEN base_zones' \o reversals(base_zones', tuning'.edge_pct)
                  ELSE base_zones'
            /\ zones' = merge_close_breaks(built_zones')
    /\ UNCHANGED <<input_vars, clustering, frame_vars, trade_vars,
                   sweep_vars, main_sup, main_res, scan>>

(***************************************************************************)
(* The sticky assignment on its own: SpecSticky                            *)
(* analyze from line 585 on, for every final zone list of at most MaxZ     *)
(* zones over MaxN candles.  The zones have 0 <= x0 <= x1 <= n-1 and are   *)
(* listed in the order _merge_close_breaks leaves them, (x1, type, value). *)
(* Both sides go through the same slot loop: the supports take three       *)
(* levels, two of equal strength, and the resistances one level.  As       *)
(* _build_zones makes them, a side has at most one base zone (x0 = 0) and  *)
(* at most one reversal zone (x0 > 0) of a value.                          *)
(***************************************************************************)
StickyLevels == {<<100, 5>>, <<105, 2>>, <<110, 2>>}   \* supports: (value, count)

StickyResLevels == {<<105, 2>>}                        \* resistances

FlatCandle(c) == [High |-> c, Low |-> c, Close |-> c]

StickyCloses == {104, 112}

\* the series opens at 104, between the two lower levels, and every later
\* candle closes there or at 112, above all levels
StickySeries(len) ==
    {[j \in 1..len |-> FlatCandle(s[j])] :
        s \in {t \in [1..len -> StickyCloses] : t[1] = 104}}

\* (max_zones, level_tol_pct): under the default tolerance of 0.05% only equal
\* values are the same level, under 5% neighbouring levels are
StickyConfigs == {<<1, 5>>, <<MaxSlots, 5>>, <<MaxSlots, 500>>}

ZoneUniverse(len) ==
    {Zone(-1, lv[1], a, b, lv[2], a > 0) :
        lv \in StickyLevels,
        a \in 0..(len - 1), b \in 0..(len - 1)} \cup
    {Zone(1, lv[1], a, b, lv[2], a > 0) :
        lv \in StickyResLevels,
        a \in 0..(len - 1), b \in 0..(len - 1)}

RECURSIVE SubsetsUpTo(_, _)
SubsetsUpTo(S, k) ==
    IF k = 0 THEN {{}}
    ELSE LET smaller == SubsetsUpTo(S, k - 1)
         IN smaller \cup {T \cup {x} : T \in smaller, x \in S}

\* the order of sort_values(["x1", "type", "value"]), then x0
ZoneBefore(a, b) ==
    \/ a.x1 < b.x1
    \/ a.x1 = b.x1 /\ a.type < b.type
    \/ a.x1 = b.x1 /\ a.type = b.type /\ a.value < b.value
    \/ a.x1 = b.x1 /\ a.type = b.type /\ a.value = b.value /\ a.x0 < b.x0

RECURSIVE SortedZones(_)
SortedZones(S) ==
    IF S = {} THEN <<>>
    ELSE LET first == CHOOSE z \in S : \A y \in S \ {z} : ZoneBefore(z, y)
         IN <<first>> \o SortedZones(S \ {first})

\* no two base zones and no two reversal zones of one side share a value
BuilderShaped(S) ==
    \A z1, z2 \in S :
        (z1 # z2 /\ z1.type = z2.type /\ z1.value = z2.value)
            => z1.is_reversal # z2.is_reversal

InitSticky ==
    /\ cfg \in {[DefaultCfg EXCEPT !.max_zones = c[1], !.level_tol_pct = c[2]] :
                  c \in StickyConfigs}
    /\ df \in StickySeries(MaxN)
    /\ zones \in {SortedZones(S) :
                    S \in {T \in SubsetsUpTo({z \in ZoneUniverse(MaxN) : z.x0 <= z.x1},
                                              MaxZ) : BuilderShaped(T)}}
    /\ pc = "zones"
    /\ atr14 = <<>>
    /\ clusters = [sup |-> <<>>, res |-> <<>>]
    /\ tuning = <<>>
    /\ scan_log = <<>>
    /\ base_zones = <<>>
    /\ built_zones = <<>>
    /\ NoTrade
    /\ scan = <<>>
    /\ clustering = <<>>
    /\ i = 0
    /\ active_sup = <<>>
    /\ active_res = <<>>
    /\ prev_sup = <<>>
    /\ prev_res = <<>>
    /\ last_sup = <<>>
    /\ last_res = <<>>
    /\ pool_sup = <<>>
    /\ pool_res = <<>>
    /\ out_sup = [r \in 1..MaxN |-> NoSlots]
    /\ out_res = [r \in 1..MaxN |-> NoSlots]
    /\ main_sup = [r \in 1..MaxN |-> NaN]
    /\ main_res = [r \in 1..MaxN |-> NaN]
    /\ is_pivot = [r \in 1..MaxN |-> 0]
    /\ df_index = [r \in 1..MaxN |-> r - 1]
    /\ df_object = "copy"
    /\ caller = <<>>
    /\ result = <<>>
    /\ runs = <<>>

NextSticky == SkipSticky \/ StartSticky \/ SweepCandle \/ NearestLevels

SpecSticky == InitSticky /\ [][NextSticky]_vars

(***************************************************************************)
(* The zone builder on its own: SpecZones                                  *)
(* _build_zones for every series of MaxCandles candles around the levels   *)
(* 100.00 to 104.00, the clusters being the result of the clustering.      *)
(***************************************************************************)
MaxCandles == 3     \* candles of the series the zones are built on
MaxCooldown == 1    \* largest polarity_cooldown

Candle(h, l, c) == [High |-> h, Low |-> l, Close |-> c]

Cluster(center, count) == [center |-> center, count |-> count]

\* a quiet candle, one closing above the levels, one dipping below them
ZoneCandles == {Candle(10010, 9990, 10000), Candle(10200, 10000, 10200),
                Candle(10000, 9900, 9990)}

ZoneClusters ==
    {[sup |-> s, res |-> r] :
        s \in {<<>>, <<Cluster(10000, 3)>>, <<Cluster(10000, 3), Cluster(10110, 5)>>},
        r \in {<<>>, <<Cluster(10050, 3)>>, <<Cluster(10050, 3), Cluster(10400, 2)>>}}

\* (enable_polarity, eternal_polarity, polarity_cooldown)
PolarityModes ==
    {<<FALSE, FALSE, 0>>} \cup {<<TRUE, e, c>> : e \in BOOLEAN, c \in 0..MaxCooldown}

ZoneConfigs ==
    {[DefaultCfg EXCEPT !.timeframe = tf, !.confirmation_candles = 1,
                        !.band_mode = bm, !.use_close_only = co,
                        !.enable_polarity = pol[1], !.eternal_polarity = pol[2],
                        !.polarity_cooldown = pol[3], !.merge_breaks_min_sep = ms] :
        tf \in {"1h", "unknown"}, bm \in {"pct", "atr"}, co \in BOOLEAN,
        pol \in PolarityModes, ms \in {0, 5}}

\* what ta.atr leaves in self._atr14: nothing but NaN on a short series, or values
AtrSeries(len, mode) ==
    IF mode = "atr" THEN {[j \in 1..len |-> NaN], [j \in 1..len |-> 30]}
    ELSE {<<>>}

\* self.df bound to the caller's table itself
self_df_shared == "caller"

\* line 83: self.df = df.copy()
self_df == "copy"

\* the fields no step has written yet, as __init__ leaves them (lines 118-127)
Fresh ==
    /\ tuning = <<>>
    /\ scan_log = <<>>
    /\ base_zones = <<>>
    /\ built_zones = <<>>
    /\ zones = <<>>
    /\ i = 0
    /\ active_sup = <<>>
    /\ active_res = <<>>
    /\ prev_sup = <<>>
    /\ prev_res = <<>>
    /\ last_sup = <<>>
    /\ last_res = <<>>
    /\ pool_sup = <<>>
    /\ pool_res = <<>>
    /\ out_sup = [r \in 1..n |-> NoSlots]
    /\ out_res = [r \in 1..n |-> NoSlots]
    /\ main_sup = [r \in 1..n |-> NaN]
    /\ main_res = [r \in 1..n |-> NaN]
    /\ is_pivot = [r \in 1..n |-> 0]
    /\ df_index = [r \in 1..n |-> r - 1]
    /\ df_object = self_df

\* no caller's table is modelled
NoCaller ==
    /\ caller = <<>>
    /\ result = <<>>
    /\ runs = <<>>

InitZones ==
    /\ cfg \in ZoneConfigs
    /\ df \in [1..MaxCandles -> ZoneCandles]
    /\ atr14 \in AtrSeries(MaxCandles, cfg.band_mode)
    /\ clusters \in ZoneClusters
    /\ pc = "pivots"
    /\ scan = <<>>
    /\ clustering = <<>>
    /\ Fresh
    /\ NoCaller
    /\ NoTrade

NextZones == BuildZones

SpecZones == InitZones /\ [][NextZones]_vars

(***************************************************************************)
(* The adaptive configuration in use: SpecTuning                           *)
(* _build_zones for every timeframe, band mode and caller value, on flat   *)
(* series in three price ranges.                                           *)
(***************************************************************************)
Timeframes == {"1s", "1m", "5m", "15m", "1h", "4h", "1d", "1w", "1mn", "unknown"}

BandModes == {"pct", "atr", "percentage"}

TuningPrices == {50, 5000, 20000}

TuningConfigs ==
    {[DefaultCfg EXCEPT !.timeframe = tf, !.band_mode = bm,
                        !.confirmation_candles = cc, !.band_pct = bp,
                        !.band_atr_mult = am] :
        tf \in Timeframes, bm \in BandModes, cc \in {1, 4}, bp \in {20, 30},
        am \in {100, 130}}

InitTuning ==
    /\ cfg \in TuningConfigs
    /\ \E c \in TuningPrices :
          /\ df = [j \in 1..MaxCandles |-> Candle(c, c, c)]
          /\ clusters = [sup |-> <<Cluster(c, 3)>>, res |-> <<Cluster(c, 4)>>]
    /\ atr14 = [j \in 1..MaxCandles |-> IF j = 1 THEN NaN ELSE 30]
    /\ pc = "pivots"
    /\ scan = <<>>
    /\ clustering = <<>>
    /\ Fresh
    /\ NoCaller
    /\ NoTrade

SpecTuning == InitTuning /\ [][NextZones]_vars

(***************************************************************************)
(* The breakout scanner on its own: SpecScan                               *)
(* one call of _find_break_index on every series made of at most MaxRuns   *)
(* runs of equal candles around the level 100.                             *)
(***************************************************************************)
MaxRuns == 3    \* runs of equal candles in a series
MaxK == 3       \* largest confirmation_candles

RunLens == {1, 3, 38}

\* quiet, closing above the band, and a wick through the band on both sides
ScanCandles == {Candle(100, 100, 100), Candle(102, 100, 102), Candle(102, 98, 100)}

RECURSIVE RunSeries(_)
RunSeries(k) ==
    IF k = 0 THEN {<<>>}
    ELSE LET shorter == RunSeries(k - 1)
         IN shorter \cup {s \o [j \in 1..len |-> c] :
                            s \in shorter, c \in ScanCandles, len \in RunLens}

InitScan ==
    /\ cfg \in {[DefaultCfg EXCEPT !.band_mode = "pct", !.use_close_only = co] :
                  co \in BOOLEAN}
    /\ df \in RunSeries(MaxRuns) \ {<<>>}
    /\ atr14 = <<>>
    /\ clusters = [sup |-> <<>>, res |-> <<>>]
    /\ pc = "scan"
    /\ clustering = <<>>
    /\ Fresh
    /\ NoCaller
    /\ NoTrade
    /\ \E d \in {"up", "down"}, st \in {0, 2}, k \in 1..MaxK :
          scan = [level |-> 100, direction |-> d, start |-> st, edge_pct |-> 100,
                  confirmation_candles |-> k, ret |-> NaN]

\* one call of _find_break_index (lines 253-309)
RunScan ==
    /\ pc = "scan"
    /\ scan' = [scan EXCEPT !.ret = find_break_index(scan.level, scan.direction,
                                        scan.start, scan.edge_pct,
                                        scan.confirmation_candles)]
    /\ pc' = "scanned"
    /\ UNCHANGED <<input_vars, clustering, frame_vars, trade_vars,
                   build_vars, sweep_vars, main_sup, main_res>>

NextScan == RunScan

SpecScan == InitScan /\ [][NextScan]_vars

(***************************************************************************)
(* The clusterer on its own: SpecCluster                                   *)
(* _cluster_pivots on every list of at most MaxPivots positive values, in  *)
(* any order and with repetitions, then once more on the centers it gave.  *)
(***************************************************************************)
MaxPivots == 3   \* pivot values handed to the clusterer

RECURSIVE Factorial(_)
Factorial(k) == IF k <= 1 THEN 1 ELSE k * Factorial(k - 1)

\* every mean of at most MaxPivots multiples of ClusterUnit, and every mean of
\* at most MaxPivots such means, is an integer
ClusterUnit == Factorial(MaxPivots) * Factorial(MaxPivots)

\* 100 to 104 in steps of 1%
PivotValues == {ClusterUnit * v : v \in 100..104}

ClusterPcts == {100, 150, 200, 300}

RECURSIVE SeqsUpTo(_, _)
SeqsUpTo(S, k) ==
    IF k = 0 THEN {<<>>}
    ELSE LET shorter == SeqsUpTo(S, k - 1)
         IN shorter \cup {Append(s, x) : s \in shorter, x \in S}

InitCluster ==
    /\ cfg = DefaultCfg
    /\ df = <<>>
    /\ atr14 = <<>>
    /\ clusters = [sup |-> <<>>, res |-> <<>>]
    /\ pc = "cluster"
    /\ scan = <<>>
    /\ Fresh
    /\ NoCaller
    /\ NoTrade
    /\ \E vs \in SeqsUpTo(PivotValues, MaxPivots), p \in ClusterPcts :
          clustering = [values |-> vs, cluster_pct |-> p, first |-> <<>>,
                        again |-> <<>>]

\* one call of _cluster_pivots (lines 226-251)
ClusterPivots ==
    /\ pc = "cluster"
    /\ clustering' = [clustering EXCEPT
                         !.first = cluster_pivots(clustering.values,
                                                  clustering.cluster_pct)]
    /\ pc' = "clustered"
    /\ UNCHANGED <<input_vars, frame_vars, trade_vars, build_vars, sweep_vars, main_sup, main_res,
                   scan>>

\* the values of a list of clusters
Centers(cs) == [j \in 1..Len(cs) |-> cs[j].center]

\* one more call of _cluster_pivots, on the centers of the first
Recluster ==
    /\ pc = "clustered"
    /\ clustering' = [clustering EXCEPT
                         !.again = cluster_pivots(Centers(clustering.first),
                                                  clustering.cluster_pct)]
    /\ pc' = "reclustered"
    /\ UNCHANGED <<input_vars, frame_vars, trade_vars, build_vars, sweep_vars, main_sup, main_res,
                   scan>>

NextCluster == ClusterPivots \/ Recluster

SpecCluster == InitCluster /\ [][NextCluster]_vars

(***************************************************************************)
(* The whole of analyze: SpecPipeline                                      *)
(* One analyzer, constructed on the caller's table, runs analyze (lines    *)
(* 581-588): pivots, zones, sticky assignment, return.  The series have    *)
(* at most MaxBars candles; their highs and lows are equal or more than    *)
(* the clustering tolerance apart, so that every cluster center is one of  *)
(* them.                                                                   *)
(***************************************************************************)
MaxBars == 5     \* candles of the caller's table

\* rolling(2w+1, center=True).max() == high (line 217): the window must be
\* complete, else the rolling value is NaN and the comparison is False
pivot_high(ii) ==
    /\ cfg.pivot_window <= ii
    /\ ii + cfg.pivot_window <= n - 1
    /\ \A j \in (ii - cfg.pivot_window)..(ii + cfg.pivot_window) :
          df[j + 1].High <= df[ii + 1].High

\* line 218
pivot_low(ii) ==
    /\ cfg.pivot_window <= ii
    /\ ii + cfg.pivot_window <= n - 1
    /\ \A j \in (ii - cfg.pivot_window)..(ii + cfg.pivot_window) :
          df[j + 1].Low >= df[ii + 1].Low

\* lines 220-223: the column isPivot after _detect_pivots
detect_pivots ==
    [r \in 1..n |->
        IF pivot_high(r - 1) /\ pivot_low(r - 1) THEN 0
        ELSE IF pivot_low(r - 1) THEN -1
        ELSE IF pivot_high(r - 1) THEN 1
        ELSE is_pivot[r]]

\* lines 355-361: the pivot values of one side, in candle order
pivot_values(piv, type) ==
    LET at == SelectSeq([r \in 1..n |-> r], LAMBDA r : piv[r] = type)
    IN [j \in 1..Len(at) |->
          IF type = -1 THEN df[at[j]].Low ELSE df[at[j]].High]

\* _detect_pivots (lines 212-223), and the clustering of the pivots it
\* labels, which _build_zones does first (lines 338-364) and which reads
\* nothing but isPivot, the candles and the configuration
DetectPivots ==
    /\ pc = "start"
    /\ is_pivot' = detect_pivots
    /\ clusters' =
          [sup |-> cluster_pivots(pivot_values(is_pivot', -1), adaptive.cluster_pct),
           res |-> cluster_pivots(pivot_values(is_pivot', 1), adaptive.cluster_pct)]
    /\ pc' = "pivots"
    /\ UNCHANGED <<cfg, df, atr14, clustering, df_index, df_object, caller, result,
                   runs, build_vars, sweep_vars, main_sup, main_res, scan, trade_vars>>

\* the table self.df holds, under the index it has
Table(index) ==
    [index |-> index, candles |-> df, isPivot |-> is_pivot,
     zone_support |-> out_sup, zone_resistance |-> out_res,
     main_support |-> main_sup, main_resistance |-> main_res]

\* analyze, lines 587-588: the original index is put back, self.df returned
Return ==
    /\ pc = "done"
    /\ df_index' = caller.index
    /\ result' = Table(caller.index)
    /\ runs' = Append(runs, [cfg |-> cfg, caller |-> caller,
                             result |-> Table(caller.index)])
    /\ pc' = "returned"
    /\ UNCHANGED <<input_vars, clustering, is_pivot, df_object, caller, build_vars,
                   sweep_vars, main_sup, main_res, scan, trade_vars>>

\* (High, Low, Close), all below 1.00
PipelineCandles == {Candle(80, 60, 70), Candle(70, 50, 60), Candle(70, 40, 45)}

\* a caller's table: the candles under an index of the caller's own
CallerTable(candles) ==
    [index |-> [r \in 1..Len(candles) |-> 100 + r], candles |-> candles]

PipelineConfigs ==
    {[DefaultCfg EXCEPT !.timeframe = "unknown", !.confirmation_candles = 1,
                        !.band_mode = "pct", !.pivot_window = w,
                        !.max_zones = m] :
        w \in {1, 2}, m \in {1, 2}}

\* __init__ (lines 81-127) on the caller's table t with the arguments c
Constructed(t, c) ==
    /\ cfg = c
    /\ caller = t
    /\ df = t.candles
    /\ atr14 = <<>>
    /\ clusters = [sup |-> <<>>, res |-> <<>>]
    /\ Fresh

InitPipeline ==
    /\ \E candles \in SeqsUpTo(PipelineCandles, MaxBars) \ {<<>>},
          c \in PipelineConfigs :
          Constructed(CallerTable(candles), c)
    /\ pc = "start"
    /\ NoTrade
    /\ scan = <<>>
    /\ clustering = <<>>
    /\ result = <<>>
    /\ runs = <<>>

NextPipeline ==
    \/ DetectPivots
    \/ BuildZones
    \/ SkipSticky
    \/ StartSticky
    \/ SweepCandle
    \/ NearestLevels
    \/ Return

SpecPipeline == InitPipeline /\ [][NextPipeline]_vars

(***************************************************************************)
(* Zones that end close together: SpecMerge                                *)
(* _build_zones on two supports and a resistance between them, all within  *)
(* 1% of their neighbour, with candles that break them one after another.  *)
(***************************************************************************)
MaxMergeCandles == 4   \* candles of a series

\* a candle under both supports, one over the lowest level only, one over the
\* lower two levels, and one over all three
MergeCandles == {Candle(10000, 9900, 9990), Candle(10030, 10000, 10020),
                 Candle(10080, 10030, 10070), Candle(10200, 10100, 10190)}

MergeClusters == [sup |-> <<Cluster(10000, 3), Cluster(10110, 5)>>,
                  res |-> <<Cluster(10050, 3)>>]

MergeConfigs ==
    {[DefaultCfg EXCEPT !.timeframe = "unknown", !.confirmation_candles = 1,
                        !.band_mode = "pct", !.enable_polarity = pol,
                        !.eternal_polarity = et, !.merge_breaks_min_sep = ms] :
        pol \in BOOLEAN, et \in BOOLEAN, ms \in {0, 1, 5}}

InitMerge ==
    /\ cfg \in MergeConfigs
    /\ df \in [1..MaxMergeCandles -> MergeCandles]
    /\ atr14 = <<>>
    /\ clusters = MergeClusters
    /\ pc = "pivots"
    /\ scan = <<>>
    /\ clustering = <<>>
    /\ Fresh
    /\ NoCaller
    /\ NoTrade

NextMerge == BuildZones

SpecMerge == InitMerge /\ [][NextMerge]_vars

(***************************************************************************)
(* Clusters of every strength around a price of 1.00: SpecStrength         *)
(* _build_zones on series whose median close is below 1.00 or not, with    *)
(* clusters of 1, 2 and 3 pivots.                                          *)
(***************************************************************************)
\* (High, Low, Close) with closes 0.98, 1.00 and 1.02
StrengthCandles == {Candle(99, 97, 98), Candle(101, 99, 100), Candle(104, 101, 102)}

StrengthClusters ==
    {[sup |-> s, res |-> r] :
        s \in {<<>>, <<Cluster(100, 2)>>, <<Cluster(98, 1), Cluster(100, 3)>>},
        r \in {<<>>, <<Cluster(100, 2)>>, <<Cluster(101, 3), Cluster(103, 2)>>}}

StrengthConfigs ==
    {[DefaultCfg EXCEPT !.timeframe = "unknown", !.confirmation_candles = 1,
                        !.band_mode = "pct", !.enable_polarity = pol,
                        !.merge_breaks_min_sep = ms] :
        pol \in BOOLEAN, ms \in {0, 5}}

InitStrength ==
    /\ cfg \in StrengthConfigs
    /\ df \in [1..MaxCandles -> StrengthCandles]
    /\ atr14 = <<>>
    /\ clusters \in StrengthClusters
    /\ pc = "pivots"
    /\ scan = <<>>
    /\ clustering = <<>>
    /\ Fresh
    /\ NoCaller
    /\ NoTrade

NextStrength == BuildZones

SpecStrength == InitStrength /\ [][NextStrength]_vars

(***************************************************************************)
(* Analyzers one after another: SpecFrame                                  *)
(* At most MaxInvocations times, the caller constructs an analyzer on one  *)
(* of its tables and runs analyze.  The locals of the invocation before    *)
(* stay in the state as garbage; __init__ writes the fields of the new     *)
(* analyzer only.                                                          *)
(***************************************************************************)
MaxInvocations == 3   \* analyzers constructed in a behaviour

\* a support broken at the last candle, one that holds, a series too short
\* for a pivot, and a resistance that holds
FrameTables ==
    {CallerTable(<<Candle(80, 60, 70), Candle(70, 50, 60), Candle(70, 50, 60),
                   Candle(80, 60, 70), Candle(70, 40, 45)>>),
     CallerTable(<<Candle(80, 60, 70), Candle(70, 50, 60), Candle(70, 50, 60),
                   Candle(80, 60, 70), Candle(80, 60, 70)>>),
     CallerTable(<<Candle(80, 60, 70), Candle(70, 50, 60)>>),
     CallerTable(<<Candle(70, 50, 60), Candle(80, 60, 70), Candle(80, 60, 70),
                   Candle(70, 50, 60), Candle(70, 50, 60)>>)}

FrameConfigs == {c \in PipelineConfigs : c.pivot_window = 1}

InitFrame ==
    /\ \E t \in FrameTables, c \in FrameConfigs : Constructed(t, c)
    /\ pc = "start"
    /\ NoTrade
    /\ scan = <<>>
    /\ clustering = <<>>
    /\ result = <<>>
    /\ runs = <<>>

\* BreakoutAnalyzer(t, ...) after an invocation has returned: __init__
\* (lines 81-127) of a new analyzer
Construct ==
    /\ pc = "returned"
    /\ Len(runs) < MaxInvocations
    /\ \E t \in FrameTables, c \in FrameConfigs :
          /\ cfg' = c
          /\ caller' = t
          /\ df' = t.candles
          /\ df_index' = [r \in 1..Len(t.candles) |-> r - 1]
          /\ is_pivot' = [r \in 1..Len(t.candles) |-> 0]
          /\ out_sup' = [r \in 1..Len(t.candles) |-> [k \in 1..c.max_zones |-> NaN]]
          /\ out_res' = [r \in 1..Len(t.candles) |-> [k \in 1..c.max_zones |-> NaN]]
          /\ main_sup' = [r \in 1..Len(t.candles) |-> NaN]
          /\ main_res' = [r \in 1..Len(t.candles) |-> NaN]
    /\ df_object' = self_df
    /\ atr14' = <<>>
    /\ result' = <<>>
    /\ pc' = "start"
    /\ UNCHANGED <<clusters, build_vars, i, active_sup, active_res, prev_sup,
                   prev_res, last_sup, last_res, pool_sup, pool_res, runs, scan,
                   clustering, trade_vars>>

NextFrame ==
    \/ DetectPivots
    \/ BuildZones
    \/ SkipSticky
    \/ StartSticky
    \/ SweepCandle
    \/ NearestLevels
    \/ Return
    \/ Construct

SpecFrame == InitFrame /\ [][NextFrame]_vars

(***************************************************************************)
(* The sticky assignment under two hysteresis ratios: SpecHysteresis       *)
(* _assign_sticky runs over a zone list and a series, then a second        *)
(* analyzer that differs in hysteresis_ratio alone runs it over the same   *)
(* zone list and series.  The table of the first run is kept in runs.      *)
(***************************************************************************)
\* hysteresis_ratio in hundredths; line 111 keeps it at 0 or above
HysteresisRatios == {0, 25, 100}

\* the first analyzer has the default hysteresis_ratio (line 75); the zones
\* are supports, the resistances go through the same slot loop
InitHysteresis ==
    /\ InitSticky
    /\ \A z \in 1..Len(zones) : zones[z].type = -1

\* a second analyzer over the same zones and closes (line 111), at the start
\* of its _assign_sticky (lines 472-479); the first run's table is kept
AssignAgain ==
    /\ pc = "done"
    /\ zones # <<>>
    /\ runs = <<>>
    /\ \E h \in HysteresisRatios \ {cfg.hysteresis_ratio} :
          cfg' = [cfg EXCEPT !.hysteresis_ratio = h]
    /\ runs' = <<[cfg |-> cfg, caller |-> caller, result |-> Table(df_index)]>>
    /\ i' = 0
    /\ active_sup' = <<>>
    /\ active_res' = <<>>
    /\ prev_sup' = NoSlots
    /\ prev_res' = NoSlots
    /\ out_sup' = [r \in 1..n |-> NoSlots]
    /\ out_res' = [r \in 1..n |-> NoSlots]
    /\ main_sup' = [r \in 1..n |-> NaN]
    /\ main_res' = [r \in 1..n |-> NaN]
    /\ pc' = "sweep"
    /\ UNCHANGED <<df, atr14, clusters, build_vars, last_sup, last_res, pool_sup,
                   pool_res, scan, clustering, is_pivot, df_index, df_object,
                   caller, result, trade_vars>>

NextHysteresis == SkipSticky \/ StartSticky \/ SweepCandle \/ NearestLevels \/ AssignAgain

SpecHysteresis == InitHysteresis /\ [][NextHysteresis]_vars

(***************************************************************************)
(* Claims about the sticky assignment (SpecSticky)                         *)
(***************************************************************************)
Sides == {-1, 1}

Out(side) == IF side = -1 THEN out_sup ELSE out_res

Prev(side) == IF side = -1 THEN prev_sup ELSE prev_res

Last(side) == IF side = -1 THEN last_sup ELSE last_res

Pool(side) == IF side = -1 THEN pool_sup ELSE pool_res

Active(side) == IF side = -1 THEN active_sup ELSE active_res

\* rows 1..Swept have been written by the sweep; the last one is candle Swept-1
Swept == IF pc \in {"sweep", "done"} THEN i ELSE 0

Slots == 1..cfg.max_zones

\* C1: for every processed candle and each side, no two non-absent slots
\* hold values that are the same level.
C1_NoDuplicateLevels ==
    \A r \in 1..Swept : \A side \in Sides : \A k1, k2 \in Slots :
        k1 < k2 => ~same_level(Out(side)[r][k1], Out(side)[r][k2])

\* C2 as stated: at a candle >= 1, when the value slot k held at the previous
\* candle is still the value of an active zone of the side and the best
\* candidate does not improve the distance to the close by hysteresis_ratio,
\* slot k holds the same value as at the previous candle.
C2_StickinessAsStated ==
    \A side \in Sides : \A k \in Slots :
        (/\ Swept >= 2
         /\ ~IsNa(Last(side)[k])
         /\ \E j \in 1..Len(Active(side)) : Active(side)[j].value = Last(side)[k]
         /\ 100 * Pool(side)[1][1].distance
              >= (100 - cfg.hysteresis_ratio) * Abs(Last(side)[k] - price(i - 1)))
        => Prev(side)[k] = Last(side)[k]

\* slot k's previous value is still the value of a candidate left for slot k
StillOffered(side, k) ==
    /\ Swept >= 2
    /\ ~IsNa(Last(side)[k])
    /\ \E j \in 1..Len(Pool(side)[k]) : Pool(side)[k][j].value = Last(side)[k]

\* C2 amended: when slot k's previous value is still among the candidates
\* remaining at slot k's turn, slot k takes the first remaining candidate in
\* rank order that is the same level as that value; it is the previous value
\* itself when no other remaining candidate is the same level.
C2_Stickiness ==
    \A side \in Sides : \A k \in Slots :
        StillOffered(side, k) =>
            LET pool == Pool(side)[k]
                pv == Last(side)[k]
                now == Prev(side)[k]
            IN /\ same_level(pv, now)
               /\ \E j \in 1..Len(pool) :
                     /\ pool[j].value = now
                     /\ \A m \in 1..(j - 1) : ~same_level(pv, pool[m].value)
               /\ (\A j \in 1..Len(pool) :
                      same_level(pv, pool[j].value) => pool[j].value = pv)
                  => now = pv

\* a candle >= 1 where slot 2 kept its value although a stronger candidate
\* that is no level of it was ranked first
C2_Witness ==
    \E side \in Sides :
        /\ cfg.max_zones >= 2
        /\ StillOffered(side, 2)
        /\ Pool(side)[2][1].value # Last(side)[2]
        /\ Prev(side)[2] = Last(side)[2]

MaxCount(side) ==
    CHOOSE c \in {Active(side)[j].count : j \in 1..Len(Active(side))} :
        \A j \in 1..Len(Active(side)) : Active(side)[j].count <= c

TwoStrengths(side) ==
    /\ Swept >= 1
    /\ cfg.max_zones = 1
    /\ \E j1, j2 \in 1..Len(Active(side)) :
          Active(side)[j1].count # Active(side)[j2].count

HoldsStrongest(side) ==
    \E j \in 1..Len(Active(side)) :
        /\ Active(side)[j].count = MaxCount(side)
        /\ Active(side)[j].value = Prev(side)[1]

\* C3 as stated: with max_zones = 1, whenever zones of different strengths
\* are active on a side, slot 1 holds the value of a strongest one.
C3_StrongestAsStated ==
    \A side \in Sides : TwoStrengths(side) => HoldsStrongest(side)

\* C3 amended: the same, at the candles where slot 1 had no value before or
\* no active zone is the same level as the value it had.
C3_Strongest ==
    \A side \in Sides :
        (/\ TwoStrengths(side)
         /\ \A j \in 1..Len(Active(side)) :
               ~same_level(Last(side)[1], Active(side)[j].value))
        => HoldsStrongest(side)

\* the stronger zone is the farther one, and slot 1 switched to it
C3_Witness ==
    \E side \in Sides :
        /\ TwoStrengths(side)
        /\ ~IsNa(Last(side)[1])
        /\ \A j \in 1..Len(Active(side)) :
               ~same_level(Last(side)[1], Active(side)[j].value)
        /\ \E j \in 1..Len(Active(side)) :
               /\ Active(side)[j].count < MaxCount(side)
               /\ Abs(Active(side)[j].value - price(i - 1))
                    < Abs(Prev(side)[1] - price(i - 1))
        /\ HoldsStrongest(side)

\* C7: every non-absent slot value of candle r-1 is the value of a zone of
\* that side of the final zone list with x0 <= r-1 <= x1.
C7_SlotsAreActiveZones ==
    \A r \in 1..Swept : \A side \in Sides : \A k \in Slots :
        ~IsNa(Out(side)[r][k]) =>
            \E j \in 1..Len(zones) :
                /\ zones[j].type = side
                /\ zones[j].value = Out(side)[r][k]
                /\ zones[j].x0 <= r - 1
                /\ r - 1 <= zones[j].x1

\* a level held at candle 0 whose zones have all ended is gone at candle 1,
\* while another zone of the side is still active
C7_Witness ==
    \E side \in Sides :
        /\ Swept >= 2
        /\ ~IsNa(Out(side)[1][1])
        /\ ~IsNa(Out(side)[2][1])
        /\ \A j \in 1..Len(zones) :
              (zones[j].type = side /\ zones[j].value = Out(side)[1][1])
                  => zones[j].x1 = 0
        /\ \A k \in Slots : Out(side)[2][k] # Out(side)[1][1]

\* the slots of row r of a side that hold a value
Assigned(side, r) == {k \in Slots : ~IsNa(Out(side)[r][k])}

\* the zones of the final list that are of the side and cover candle r-1
Covering(side, r) ==
    {j \in 1..Len(zones) :
        zones[j].type = side /\ zones[j].x0 <= r - 1 /\ r - 1 <= zones[j].x1}

\* C13: at every processed candle and on each side, the number of slots
\* holding a value is at most max_zones and at most the number of zones of
\* the side that are active at that candle.
C13_SlotCap ==
    \A r \in 1..Swept : \A side \in Sides :
        /\ Len(Out(side)[r]) = cfg.max_zones
        /\ Cardinality(Assigned(side, r)) <= cfg.max_zones
        /\ Cardinality(Assigned(side, r)) <= Cardinality(Covering(side, r))

\* two zones of a side are active and are one level: a single slot is
\* filled although a second slot is free
C13_Witness ==
    \E r \in 1..Swept : \E side \in Sides :
        /\ cfg.max_zones >= 2
        /\ Cardinality(Covering(side, r)) >= 2
        /\ Cardinality(Assigned(side, r)) = 1

Main(side) == IF side = -1 THEN main_sup ELSE main_res

\* C14: once the nearest values are computed, on every candle and each side
\* the nearest value is absent exactly when no slot of the side holds a
\* value at that candle; otherwise it is the value of a slot of the side at
\* that candle, and no slot value of the side is closer to the close.
C14_NearestLevel ==
    pc \in {"done", "returned"} =>
        \A r \in 1..n : \A side \in Sides :
            /\ IsNa(Main(side)[r]) <=> Assigned(side, r) = {}
            /\ Assigned(side, r) # {} =>
                  /\ \E k \in Assigned(side, r) : Main(side)[r] = Out(side)[r][k]
                  /\ \A k \in Assigned(side, r) :
                        Abs(Main(side)[r] - price(r - 1))
                            <= Abs(Out(side)[r][k] - price(r - 1))

\* the value of slot 2 is nearer to the close than the value of slot 1 and
\* is the nearest value of the row
C14_Witness ==
    /\ pc = "done"
    /\ cfg.max_zones >= 2
    /\ \E r \in 1..n : \E side \in Sides :
          /\ {1, 2} \subseteq Assigned(side, r)
          /\ Abs(Out(side)[r][2] - price(r - 1)) < Abs(Out(side)[r][1] - price(r - 1))
          /\ Main(side)[r] = Out(side)[r][2]

\* the rank key of an active zone at the last processed candle
RankKey(z) == [value |-> z.value, count |-> z.count,
               distance |-> Abs(z.value - price(i - 1))]

\* the active zones of the side that are not the same level as a value
\* assigned to a slot below k at the last processed candle
Remaining(side, k) ==
    {j \in 1..Len(Active(side)) :
        \A m \in 1..(k - 1) : ~same_level(Active(side)[j].value, Prev(side)[m])}

\* v is the value of a first zone of the set S of active zones in rank order
FirstRanked(side, S, v) ==
    \E j \in S :
        /\ Active(side)[j].value = v
        /\ \A m \in S : ~RankBefore(RankKey(Active(side)[m]), RankKey(Active(side)[j]))

\* C23: a slot whose previous value is absent holds the first, in
\* the order (higher strength, smaller distance to the close, smaller
\* value), of the active zones of its side that are not the same level as a
\* value assigned to a lower slot at this candle, and is absent exactly when
\* there is none.
C23_FreshSlot ==
    \A side \in Sides : \A k \in Slots :
        (Swept >= 1 /\ IsNa(Last(side)[k])) =>
            IF Remaining(side, k) = {} THEN IsNa(Prev(side)[k])
            ELSE FirstRanked(side, Remaining(side, k), Prev(side)[k])

(***************************************************************************)
(* Claims about the zone builder (SpecZones)                               *)
(***************************************************************************)
Built == pc = "zones"

\* C4: every zone of the final zone list has 0 <= x0 <= x1 <= N-1.
C4_IntervalValidity ==
    Built => \A j \in 1..Len(zones) :
                /\ 0 <= zones[j].x0
                /\ zones[j].x0 <= zones[j].x1
                /\ zones[j].x1 <= n - 1

\* a final list with a base zone, a reversal zone and a zone that the merge
\* extended
C4_Witness ==
    /\ Built
    /\ \E j \in 1..Len(zones) : ~zones[j].is_reversal
    /\ \E j \in 1..Len(zones) : zones[j].is_reversal
    /\ \E j \in 1..Len(zones) :
          \E m \in 1..Len(built_zones) :
              /\ [zones[j] EXCEPT !.x1 = built_zones[m].x1] = built_zones[m]
              /\ zones[j].x1 > built_zones[m].x1

Eternal == Built /\ cfg.enable_polarity /\ cfg.eternal_polarity

StartRev(z) == z.x1 + 1 + cfg.polarity_cooldown

\* the reversal zone of base zone z with the interval [start_rev, N-1]
EternalReversalIn(z, zs) ==
    \E j \in 1..Len(zs) :
        /\ zs[j].type = -z.type
        /\ zs[j].value = z.value
        /\ zs[j].is_reversal
        /\ zs[j].x0 = StartRev(z)
        /\ zs[j].x1 = n - 1

\* C8 as stated: with eternal polarity, every base zone broken at x1 with
\* x1 + 1 + cooldown < N has its reversal zone [x1 + 1 + cooldown, N-1] in the
\* final zone list, whatever other zones exist.
C8_EternalReversalAsStated ==
    Eternal => \A j \in 1..Len(base_zones) :
                  StartRev(base_zones[j]) < n => EternalReversalIn(base_zones[j], zones)

\* C8 amended: that reversal zone is in the list handed to the merge step,
\* and in the final list when merging is disabled (merge_breaks_min_sep = 0).
C8_EternalReversal ==
    Eternal => \A j \in 1..Len(base_zones) :
                  StartRev(base_zones[j]) < n =>
                      /\ EternalReversalIn(base_zones[j], built_zones)
                      /\ cfg.merge_breaks_min_sep = 0
                            => EternalReversalIn(base_zones[j], zones)

\* merging disabled, a support broken before the end, and a later candle
\* that breaks the reversed level upward
C8_Witness ==
    /\ Eternal
    /\ cfg.merge_breaks_min_sep = 0
    /\ \E j \in 1..Len(base_zones) :
          /\ base_zones[j].type = -1
          /\ StartRev(base_zones[j]) < n
          /\ \E ii \in StartRev(base_zones[j])..(n - 1) :
                broken(base_zones[j].value, "up",
                       band_vals(base_zones[j].value, tuning.edge_pct), ii)
          /\ EternalReversalIn(base_zones[j], zones)

\* how many times x occurs in the sequence s
Occurrences(s, x) == Cardinality({k \in 1..Len(s) : s[k] = x})

\* what the claim fixes of a reversal zone: side, value, strength and start
ReversalKey(z) == [type |-> z.type, value |-> z.value, count |-> z.count, x0 |-> z.x0]

\* the key of the reversal zone a base zone z is to get
ExpectedKey(z) == [type |-> -z.type, value |-> z.value, count |-> z.count,
                   x0 |-> StartRev(z)]

ReversalKeys ==
    [j \in 1..Len(SelectSeq(built_zones, LAMBDA z : z.is_reversal)) |->
        ReversalKey(SelectSeq(built_zones, LAMBDA z : z.is_reversal)[j])]

ExpectedKeys ==
    [j \in 1..Len(SelectSeq(base_zones, LAMBDA z : StartRev(z) < n)) |->
        ExpectedKey(SelectSeq(base_zones, LAMBDA z : StartRev(z) < n)[j])]

\* C20: in the list handed to the merge step, with polarity enabled the
\* reversal zones are, one for one, the base zones z with
\* z.x1 + 1 + polarity_cooldown < N, each with the opposite side, the value
\* and strength of z and x0 = z.x1 + 1 + polarity_cooldown; a base zone with
\* x1 = N-1 has none, the zones that are not reversal zones are the base
\* zones and no more, and with polarity disabled there is no reversal zone.
C20_ReversalZones ==
    Built =>
        /\ SelectSeq(built_zones, LAMBDA z : ~z.is_reversal) = base_zones
        /\ IF cfg.enable_polarity
           THEN /\ Len(ReversalKeys) = Len(ExpectedKeys)
                /\ \A j \in 1..Len(ExpectedKeys) :
                      Occurrences(ReversalKeys, ExpectedKeys[j])
                          = Occurrences(ExpectedKeys, ExpectedKeys[j])
                /\ \A j \in 1..Len(base_zones) :
                      base_zones[j].x1 = n - 1 =>
                          Occurrences(ReversalKeys, ExpectedKey(base_zones[j])) = 0
           ELSE ReversalKeys = <<>>

\* with a cooldown, a base zone broken early enough to get its reversal zone,
\* one broken too late for it, and one that runs to the last candle
C20_Witness ==
    /\ Built
    /\ cfg.enable_polarity
    /\ cfg.polarity_cooldown > 0
    /\ \E j \in 1..Len(base_zones) : StartRev(base_zones[j]) < n
    /\ \E j \in 1..Len(base_zones) :
          base_zones[j].x1 < n - 1 /\ StartRev(base_zones[j]) >= n
    /\ \E j \in 1..Len(base_zones) : base_zones[j].x1 = n - 1
    /\ ReversalKeys # <<>>

\* the base zones that get a reversal zone, and the reversal zones, in the
\* order of the list handed to the merge step
Reversed == SelectSeq(base_zones, LAMBDA z : StartRev(z) < n)

ReversalZones == SelectSeq(built_zones, LAMBDA z : z.is_reversal)

\* candle ii breaks the level of base zone z the other way
BreaksBack(z, ii) ==
    broken(z.value, IF z.type = -1 THEN "up" ELSE "down",
           band_vals(z.value, tuning.edge_pct), ii)

\* what one breaking candle after start_rev gives: the candle before the
\* first one that breaks, not before start_rev; N-1 when none breaks
OneCandleBreak(z) ==
    IF \E ii \in StartRev(z)..(n - 1) : BreaksBack(z, ii)
    THEN LET first == CHOOSE ii \in StartRev(z)..(n - 1) :
                         /\ BreaksBack(z, ii)
                         /\ \A jj \in StartRev(z)..(ii - 1) : ~BreaksBack(z, jj)
         IN Max2(StartRev(z), first - 1)
    ELSE n - 1

SameButEnd(a, b) == [a EXCEPT !.x1 = b.x1] = b

\* the merge step dropped zone b of the list it was handed
Dropped(b) == \A j \in 1..Len(zones) : ~SameButEnd(zones[j], b)

\* C22: for every zone the merge step dropped, the final zone list has a
\* zone of the same side that ends no earlier than the dropped zone did.
C22_DroppedCovered ==
    Built => \A m \in 1..Len(built_zones) :
                Dropped(built_zones[m]) =>
                    \E j \in 1..Len(zones) :
                        /\ zones[j].type = built_zones[m].type
                        /\ zones[j].x1 >= built_zones[m].x1

(***************************************************************************)
(* Claims about the adaptive configuration (SpecTuning)                    *)
(***************************************************************************)
\* C9: for a recognized timeframe, the base-zone scans apply the raised
\* confirmation count and the raised band parameter of the band mode
\* (band_pct in "pct" mode, the ATR multiplier in "atr" mode); raised values
\* are never below the caller's and, for 1s/1m/5m, at least 3, 0.25 and 1.2.
C9_RaisedValuesApplied ==
    (Built /\ cfg.timeframe # "unknown") =>
        /\ tf_tuning.confirm >= cfg.confirmation_candles
        /\ tf_tuning.band_pct >= cfg.band_pct
        /\ tf_tuning.band_atr_mult >= cfg.band_atr_mult
        /\ cfg.timeframe \in {"1s", "1m", "5m"} =>
              /\ tf_tuning.confirm >= 3
              /\ tf_tuning.band_pct >= 25
              /\ tf_tuning.band_atr_mult >= 120
        /\ \A e \in 1..Len(scan_log) :
              /\ scan_log[e].confirmation_candles = tf_tuning.confirm
              /\ cfg.band_mode = "pct" =>
                    \A j \in 1..n :
                        scan_log[e].band_vals[j] = scan_log[e].level * tf_tuning.band_pct
              /\ cfg.band_mode = "atr" =>
                    \A j \in 1..n : ~IsNa(atr14[j]) =>
                        scan_log[e].band_vals[j]
                            = atr14[j] * tf_tuning.band_atr_mult * 100

\* the band every logged scan used is level * pct (pct in hundredths)
BandIsLevelTimes(pct) ==
    \A e \in 1..Len(scan_log) :
        /\ scan_log[e].edge_pct = pct
        /\ \A j \in 1..n : scan_log[e].band_vals[j] = scan_log[e].level * pct

FromMagnitude ==
    /\ tuning.min_pivots = token_config(median2).min_pivots
    /\ tuning.cluster_pct = token_config(median2).cluster_zone_pct

\* C10 as stated: with band_mode = "percentage" the edge percentage of
\* band(i) = level * edge_pct is the timeframe profile's band_pct, with the
\* other listed mode, "atr", the price-magnitude profile's; min_pivots and
\* the cluster percentage come from the price-magnitude profile.
C10_EdgeSourceAsStated ==
    Built =>
        /\ cfg.band_mode = "percentage" =>
              /\ tuning.edge_pct = tf_tuning.band_pct
              /\ BandIsLevelTimes(tf_tuning.band_pct)
        /\ cfg.band_mode = "atr" =>
              tuning.edge_pct = token_config(median2).break_zone_pct
        /\ FromMagnitude

\* C10 amended: the band mode that selects the timeframe profile's band_pct
\* is "pct"; any other mode, "percentage" included, takes the price-magnitude
\* profile's edge percentage, and unless the mode is "atr" the band is
\* level * edge_pct.
C10_EdgeSource ==
    Built =>
        /\ cfg.band_mode = "pct" =>
              /\ tuning.edge_pct = tf_tuning.band_pct
              /\ BandIsLevelTimes(tf_tuning.band_pct)
        /\ cfg.band_mode # "pct" =>
              tuning.edge_pct = token_config(median2).break_zone_pct
        /\ cfg.band_mode \notin {"pct", "atr"} =>
              BandIsLevelTimes(token_config(median2).break_zone_pct)
        /\ FromMagnitude

\* band_mode = "percentage" on a series where the two profiles differ
C10_Witness ==
    /\ Built
    /\ cfg.band_mode = "percentage"
    /\ scan_log # <<>>
    /\ tf_tuning.band_pct # token_config(median2).break_zone_pct
    /\ BandIsLevelTimes(token_config(median2).break_zone_pct)

(***************************************************************************)
(* Claims about the breakout scanner (SpecScan)                            *)
(***************************************************************************)
Scanned == pc = "scanned"

Breaking(ii) ==
    broken(scan.level, scan.direction, band_vals(scan.level, scan.edge_pct), ii)

\* the counter reaches K at candle ii: the K candles ending at ii, none
\* before start, are all breaking
Confirmed(ii) ==
    /\ ii - scan.confirmation_candles + 1 >= scan.start
    /\ \A m \in (ii - scan.confirmation_candles + 1)..ii : Breaking(m)

FirstConfirmed ==
    CHOOSE ii \in scan.start..(n - 1) :
        Confirmed(ii) /\ \A m \in scan.start..(ii - 1) : ~Confirmed(m)

\* C5: for start < N the scanner returns max(start, i* - K), i* the first
\* candle at which K consecutive breaking candles are complete, and N-1
\* when there is none.
C5_ScannerResult ==
    (Scanned /\ scan.start < n) =>
        scan.ret = IF \E ii \in scan.start..(n - 1) : Confirmed(ii)
                   THEN Max2(scan.start, FirstConfirmed - scan.confirmation_candles)
                   ELSE n - 1

\* a breaking candle too short-lived to confirm, then a confirmed break
C5_Witness ==
    /\ Scanned
    /\ scan.start < n
    /\ scan.confirmation_candles >= 2
    /\ \E ii \in scan.start..(n - 1) : Confirmed(ii)
    /\ \E m \in scan.start..(FirstConfirmed - scan.confirmation_candles) : Breaking(m)
    /\ scan.ret = FirstConfirmed - scan.confirmation_candles

\* Scenario B: resistance 100 scanned upward from 0 with K = 3, the first
\* breaking candle at position 38, the break confirmed at position 40
ScenarioB ==
    /\ Scanned
    /\ scan.direction = "up"
    /\ scan.start = 0
    /\ scan.confirmation_candles = 3
    /\ n > 40
    /\ \A ii \in 0..37 : ~Breaking(ii)
    /\ \A ii \in 38..40 : Breaking(ii)

\* C6 as stated: in Scenario B the scanner returns 35.
C6_ScenarioBAsStated == ScenarioB => scan.ret = 35

\* C6 amended: in Scenario B the scanner returns 37, max(0, 40 - 3).
C6_ScenarioB == ScenarioB => scan.ret = 37

C6_Witness == ScenarioB /\ n > 41


(***************************************************************************)
(* Claims about the clusterer (SpecCluster)                                *)
(***************************************************************************)
\* C11: the clusterer run on the centers it produced, with the same
\* tolerance, gives one cluster per center, in the same order, with that
\* center: no two centers are absorbed into one cluster.
C11_ReclusterIdempotent ==
    pc = "reclustered" =>
        /\ Len(clustering.again) = Len(clustering.first)
        /\ \A j \in 1..Len(clustering.first) :
              /\ clustering.again[j].center = clustering.first[j].center
              /\ clustering.again[j].count = 1

\* a cluster of several values next to another cluster, its largest value
\* within the tolerance of the other center, and both centers kept apart
C11_Witness ==
    /\ pc = "reclustered"
    /\ Len(clustering.again) >= 2
    /\ \E j \in 1..(Len(clustering.first) - 1) :
          /\ clustering.first[j].count >= 2
          /\ \E v \in 1..Len(clustering.values) :
                /\ clustering.values[v] > clustering.first[j].center
                /\ clustering.values[v] < clustering.first[j + 1].center
                /\ near(clustering.first[j + 1].center, clustering.values[v],
                        clustering.cluster_pct)

(***************************************************************************)
(* Claims about analyze as a whole (SpecPipeline)                          *)
(***************************************************************************)
Detected ==
    pc \notin {"start", "cluster", "clustered", "reclustered", "scan", "scanned"}

NoPivots == \A r \in 1..n : is_pivot[r] = 0

NoClusterReaches ==
    \A side \in {"sup", "res"} : \A j \in 1..Len(clusters[side]) :
        clusters[side][j].count < token_config(median2).min_pivots

AllAbsent(t) ==
    /\ Len(t.zone_support) = Len(t.candles)
    /\ Len(t.zone_resistance) = Len(t.candles)
    /\ Len(t.main_support) = Len(t.candles)
    /\ Len(t.main_resistance) = Len(t.candles)
    /\ \A r \in 1..Len(t.candles) :
          /\ \A k \in 1..cfg.max_zones :
                IsNa(t.zone_support[r][k]) /\ IsNa(t.zone_resistance[r][k])
          /\ IsNa(t.main_support[r])
          /\ IsNa(t.main_resistance[r])

\* C12: when no candle is labelled a pivot (as when N < 2*pivot_window + 1)
\* or no cluster reaches min_pivots, the sticky assignment is never entered,
\* every slot and nearest value stays absent, and the table returned has the
\* caller's N rows under the caller's index.
C12_EmptyPipeline ==
    (Detected /\ caller # <<>> /\ (NoPivots \/ NoClusterReaches)) =>
        /\ pc # "sweep"
        /\ AllAbsent(Table(df_index))
        /\ pc = "returned" =>
              /\ result.index = caller.index
              /\ result.candles = caller.candles
              /\ AllAbsent(result)

\* analyze has returned on a series where pivots were labelled, but too few
\* of them fall in any one cluster
C12_Witness ==
    /\ pc = "returned"
    /\ caller # <<>>
    /\ ~NoPivots
    /\ NoClusterReaches
    /\ n >= 2 * cfg.pivot_window + 1

(***************************************************************************)
(* Claims about invocations one after another (SpecFrame)                  *)
(***************************************************************************)
\* the caller's table as the caller finds it: the object self.df writes to
\* when self.df is that table, else the table as the caller made it
CallerSees == IF df_object = "caller" THEN Table(df_index) ELSE caller

HasLevel(t) ==
    \E r \in 1..Len(t.candles) : \E k \in 1..Len(t.zone_support[r]) :
        ~IsNa(t.zone_support[r][k]) \/ ~IsNa(t.zone_resistance[r][k])

MantissaBits == 5   \* bits of the significand

RECURSIVE Pow2(_)
Pow2(k) == IF k = 0 THEN 1 ELSE 2 * Pow2(k - 1)

Sign(x) == IF x < 0 THEN -1 ELSE 1

\* the number of low bits of M > 0 that do not fit the significand
RECURSIVE Excess(_)
Excess(M) == IF M < Pow2(MantissaBits) THEN 0 ELSE 1 + Excess(M \div 2)

\* M > 0 without its k low bits, rounded to nearest, ties to even
RoundShift(M, k) ==
    LET q == M \div Pow2(k)
        r == M % Pow2(k)
    IN IF k = 0 THEN M
       ELSE IF 2 * r > Pow2(k) \/ (2 * r = Pow2(k) /\ q % 2 = 1) THEN q + 1
       ELSE q

\* the significand m > 0 brought to MantissaBits bits exactly
RECURSIVE Normal(_, _)
Normal(m, e) ==
    IF m >= Pow2(MantissaBits) THEN Normal(m \div 2, e + 1)
    ELSE IF m < Pow2(MantissaBits - 1) THEN Normal(2 * m, e - 1)
    ELSE <<m, e>>

Zero == <<0, 0>>

\* the float nearest to the number M * 2^E
fl(M, E) ==
    IF M = 0 THEN Zero
    ELSE LET a == Abs(M)
             k == Excess(a)
             f == Normal(RoundShift(a, k), E + k)
         IN <<Sign(M) * f[1], f[2]>>

\* a and b as integers over one exponent
Aligned(a, b) ==
    LET e == IF a[2] < b[2] THEN a[2] ELSE b[2]
    IN [x |-> a[1] * Pow2(a[2] - e), y |-> b[1] * Pow2(b[2] - e), e |-> e]

fmul(a, b) == fl(a[1] * b[1], a[2] + b[2])

fadd(a, b) ==
    IF a = Zero THEN b
    ELSE IF b = Zero THEN a
    ELSE fl(Aligned(a, b).x + Aligned(a, b).y, Aligned(a, b).e)

fneg(a) == <<-a[1], a[2]>>

fsub(a, b) == fadd(a, fneg(b))

\* a / b for b # 0: the quotient to MantissaBits + 2 bits at least, and one
\* more bit that tells whether anything is left of it
fdiv(a, b) ==
    LET num == Abs(a[1]) * Pow2(MantissaBits + 2)
        q == num \div Abs(b[1])
        sticky == IF num % Abs(b[1]) # 0 THEN 1 ELSE 0
    IN fl(Sign(a[1]) * Sign(b[1]) * (2 * q + sticky),
          a[2] - b[2] - (MantissaBits + 2) - 1)

fle(a, b) ==
    IF a = Zero THEN b[1] >= 0
    ELSE IF b = Zero THEN a[1] <= 0
    ELSE Aligned(a, b).x <= Aligned(a, b).y

flt(a, b) == ~fle(b, a)

fmin(a, b) == IF flt(b, a) THEN b ELSE a

fmax(a, b) == IF flt(a, b) THEN b ELSE a

\* float(n) of an integer
float(x) == fl(x, 0)

(***************************************************************************)
(* PortfolioService (portfolio_service.py) and validate_weights            *)
(* (risk/constraints.py).  A dict is the sequence of its <<key, value>>    *)
(* pairs in insertion order; None is the empty tuple.                      *)
(***************************************************************************)
None == <<>>

\* d.get(key, default)
RECURSIVE get_from(_, _, _, _)
get_from(d, k, key, default) ==
    IF k > Len(d) THEN default
    ELSE IF d[k][1] = key THEN d[k][2]
    ELSE get_from(d, k + 1, key, default)

get(d, key, default) == get_from(d, 1, key, default)

\* calculate_total_value, lines 183-204: the cash, and every position at the
\* extractor's last price, skipped when there is none
RECURSIVE total_value_from(_, _, _, _)
total_value_from(positions, k, total_value, quotes) ==
    IF k > Len(positions) THEN total_value
    ELSE LET quote == get(quotes, positions[k][1], None)
         IN total_value_from(positions, k + 1,
                IF quote = None THEN total_value
                ELSE fadd(total_value, fmul(positions[k][2], quote)),
                quotes)

calculate_total_value(pf, quotes) ==
    total_value_from(pf.positions, 1, pf.cash_balance, quotes)

\* validate_weights (constraints.py lines 27-67) under PortfolioConstraints()
\* as PortfolioService constructs it (line 35): no blacklist, no maximum;
\* a weight is clipped at 0 and kept when positive (lines 52, 64-65)
validate_weights(symbol, w) ==
    LET w_clipped == fmax(Zero, w)
    IN IF flt(Zero, w_clipped) THEN <<<<symbol, w_clipped>>>> ELSE <<>>

\* lines 107, 116-118
target_weight(sig, weights) == get(weights, sig.symbol, Zero)

target_value(sig, pf, weights, quotes) ==
    fmul(calculate_total_value(pf, quotes), target_weight(sig, weights))

current_value(sig, pf) == fmul(get(pf.positions, sig.symbol, Zero), sig.price)

value_to_invest(sig, pf, weights, quotes) ==
    fsub(target_value(sig, pf, weights, quotes), current_value(sig, pf))

\* the whole value to invest as units, whatever the cash
sized_uncapped(sig, total, value, cash_available) ==
    fdiv(value, sig.price)

\* lines 138-164: the value limited by the cash, as units, as a weight of
\* the total, validated, and as units again
sized(sig, total, value, cash_available) ==
    LET actual_value_to_invest == fmin(value, cash_available)
        raw_order_size == fdiv(actual_value_to_invest, sig.price)
        incremental_weight == fdiv(fmul(raw_order_size, sig.price), total)
        validated_weights == validate_weights(sig.symbol, incremental_weight)
        final_incremental_weight == get(validated_weights, sig.symbol, Zero)
    IN fdiv(fmul(final_incremental_weight, total), sig.price)

\* the BUY case, lines 98-173
buy_order_size(sig, pf, weights, quotes) ==
    IF fle(calculate_total_value(pf, quotes), Zero) THEN Zero
    ELSE IF fle(target_weight(sig, weights), Zero) THEN Zero
    ELSE IF fle(value_to_invest(sig, pf, weights, quotes), Zero) THEN Zero
    ELSE IF fle(pf.cash_balance, Zero) THEN Zero
    ELSE sized(sig, calculate_total_value(pf, quotes),
               value_to_invest(sig, pf, weights, quotes), pf.cash_balance)

\* compute_order_size, lines 37-177, when no collaborator raises
compute_order_size(sig, pf, weights, quotes) ==
    IF sig.signal_type = "HOLD" THEN Zero
    ELSE IF sig.price = None THEN Zero
    ELSE IF fle(sig.price, Zero) THEN Zero
    ELSE IF pf = None THEN Zero
    ELSE IF sig.signal_type = "SELL"
         THEN IF fle(get(pf.positions, sig.symbol, Zero), Zero) THEN Zero
              ELSE fneg(get(pf.positions, sig.symbol, Zero))
    ELSE IF sig.signal_type = "BUY" THEN buy_order_size(sig, pf, weights, quotes)
    ELSE Zero

(***************************************************************************)
(* TradingService.handle_signal (trading_service.py lines 21-69), one      *)
(* action per awaited call: SpecTrading                                    *)
(***************************************************************************)
\* no analyzer is modelled
NoAnalyzer ==
    /\ cfg = DefaultCfg
    /\ df = <<>>
    /\ atr14 = <<>>
    /\ clusters = [sup |-> <<>>, res |-> <<>>]
    /\ tuning = <<>>
    /\ scan_log = <<>>
    /\ base_zones = <<>>
    /\ built_zones = <<>>
    /\ zones = <<>>
    /\ i = 0
    /\ active_sup = <<>>
    /\ active_res = <<>>
    /\ prev_sup = <<>>
    /\ prev_res = <<>>
    /\ last_sup = <<>>
    /\ last_res = <<>>
    /\ pool_sup = <<>>
    /\ pool_res = <<>>
    /\ out_sup = <<>>
    /\ out_res = <<>>
    /\ main_sup = <<>>
    /\ main_res = <<>>
    /\ scan = <<>>
    /\ clustering = <<>>
    /\ is_pivot = <<>>
    /\ df_index = <<>>
    /\ df_object = self_df
    /\ NoCaller

analyzer_vars == <<input_vars, build_vars, sweep_vars, main_sup, main_res, scan,
                   clustering, frame_vars>>

SignalTypes == {"BUY", "SELL", "EXIT", "HOLD", "ALERT"}

Signals ==
    {[symbol |-> "GGAL", signal_type |-> t, price |-> p] :
        t \in SignalTypes, p \in {None, Zero, float(3)}}

Portfolios ==
    {[cash_balance |-> c, positions |-> ps] :
        c \in {Zero, float(20)}, ps \in {<<>>, <<<<"GGAL", float(2)>>>>}}

InitTrading ==
    /\ NoAnalyzer
    /\ pc = "handle"
    /\ signal \in {None} \cup Signals
    /\ portfolio \in {None} \cup Portfolios
    /\ current_weights \in {<<>>, <<<<"GGAL", fl(1, -1)>>>>}
    /\ lastest_price = <<<<"GGAL", float(3)>>>>
    /\ order_size = None
    /\ calls = <<>>
    /\ error = ""
    /\ committed = {}
    /\ outcome = ""

\* the except clause around the whole body (lines 67-69): log and raise
on_error_swallowed(e) == "returned"

on_error(e) == "raised"

\* `not order_size` (line 35) holds for None and for zero
falsy_none_only(x) == x = None

falsy(x) == x = None \/ x = Zero

\* lines 23-25: a None signal is skipped
SkipNone ==
    /\ pc = "handle"
    /\ signal = None
    /\ outcome' = "returned"
    /\ pc' = "finished"
    /\ UNCHANGED <<analyzer_vars, signal, portfolio, current_weights, lastest_price,
                   order_size, calls, error, committed>>

\* lines 33-39: the sizing.  The portfolio service is handed to the
\* constructor (line 16): the call answers what compute_order_size computes,
\* or raises as any of its awaited calls may (lines 179-181), or answers None
\* as a stand-in for the service may.
ComputeOrderSize ==
    /\ pc = "handle"
    /\ signal # None
    /\ calls' = Append(calls, "compute_order_size")
    /\ \/ /\ error' = "compute_order_size"
          /\ outcome' = on_error(error')
          /\ pc' = "finished"
          /\ UNCHANGED order_size
       \/ /\ order_size' \in
                {None, compute_order_size(signal, portfolio, current_weights,
                                          lastest_price)}
          /\ IF falsy(order_size')
             THEN outcome' = "returned" /\ pc' = "finished"
             ELSE outcome' = outcome /\ pc' = "sized"
          /\ UNCHANGED error
    /\ UNCHANGED <<analyzer_vars, signal, portfolio, current_weights, lastest_price,
                   committed>>

\* OrderDTO's validation (order_dto.py lines 34-46) of the fields line 42-49
\* pass: side is an OrderSide, BUY or SELL, and quantity is above zero
valid_order(sig, size) ==
    /\ sig.signal_type \in {"BUY", "SELL"}
    /\ size # None
    /\ flt(Zero, size)

\* the order object of lines 42-49
OrderDTO(sig, size) ==
    [symbol |-> sig.symbol, side |-> sig.signal_type, quantity |-> size,
     order_type |-> "MARKET", limit_price |-> sig.price, status |-> "PENDING"]

\* lines 42-52: the order is built, which raises when OrderDTO rejects a
\* field, and sent to the broker
PlaceOrder ==
    /\ pc = "sized"
    /\ IF valid_order(signal, order_size)
       THEN /\ calls' = Append(calls, "place_order")
            /\ \/ /\ error' = "place_order"
                  /\ outcome' = on_error(error')
                  /\ pc' = "finished"
               \/ /\ pc' = "placed"
                  /\ UNCHANGED <<error, outcome>>
       ELSE /\ error' = "OrderDTO"
            /\ outcome' = on_error(error')
            /\ pc' = "finished"
            /\ UNCHANGED calls
    /\ UNCHANGED <<analyzer_vars, signal, portfolio, current_weights, lastest_price,
                   order_size, committed>>

\* lines 55-59 with SignalRepository.save (signal_repository.py lines 22-45):
\* the record is added and the session committed (lines 37-38), then
\* refreshed (line 39).  A commit that raises leaves nothing; a refresh that
\* raises comes after the commit.  get_session rolls back what is pending
\* and raises again (client.py lines 86-89).
SaveSignal ==
    /\ pc = "placed"
    /\ calls' = Append(calls, "signal_repo.save")
    /\ \/ /\ error' = "signal_repo.save"
          /\ committed' \in {committed, committed \cup {"signal"}}
          /\ outcome' = on_error(error')
          /\ pc' = "finished"
       \/ /\ committed' = committed \cup {"signal"}
          /\ pc' = "signal_saved"
          /\ UNCHANGED <<error, outcome>>
    /\ UNCHANGED <<analyzer_vars, signal, portfolio, current_weights, lastest_price,
                   order_size>>

\* line 60 with OrderRepository.save (order_repository.py lines 36-62): the
\* record is added and the session committed (lines 59-60); when that
\* raises, get_session rolls back the pending order record only.
SaveOrder ==
    /\ pc = "signal_saved"
    /\ calls' = Append(calls, "order_repo.save")
    /\ \/ /\ error' = "order_repo.save"
          /\ outcome' = on_error(error')
          /\ UNCHANGED committed
       \/ /\ committed' = committed \cup {"order"}
          /\ outcome' = "returned"
          /\ UNCHANGED error
    /\ pc' = "finished"
    /\ UNCHANGED <<analyzer_vars, signal, portfolio, current_weights, lastest_price,
                   order_size>>

NextTrading ==
    \/ SkipNone
    \/ ComputeOrderSize
    \/ PlaceOrder
    \/ SaveSignal
    \/ SaveOrder

SpecTrading == InitTrading /\ [][NextTrading]_vars

(***************************************************************************)
(* Claims about handle_signal (SpecTrading)                                *)
(***************************************************************************)
Steps == <<"compute_order_size", "place_order", "signal_repo.save", "order_repo.save">>

Called(name) == \E k \in 1..Len(calls) : calls[k] = name

\* C16: the calls made are at every moment the first ones of
\* compute_order_size, place_order, signal_repo.save, order_repo.save, in
\* that order; when a call raises, handle_signal raises and the call that
\* raised stays the last one made; when the sizing raised, or the order
\* could not be built, the broker was not called, and when the sizing, the
\* building of the order or the broker raised nothing is committed.
C16_OrderAndPropagation ==
    /\ Len(calls) <= Len(Steps)
    /\ \A k \in 1..Len(calls) : calls[k] = Steps[k]
    /\ error # "" =>
          /\ outcome = "raised"
          /\ pc = "finished"
          /\ calls # <<>>
          /\ error # "OrderDTO" => calls[Len(calls)] = error
          /\ error \in {"compute_order_size", "OrderDTO"} => ~Called("place_order")
          /\ error \in {"compute_order_size", "OrderDTO", "place_order"}
                => committed = {}

\* the broker raised after a sizing that gave an order
C16_Witness ==
    /\ error = "place_order"
    /\ outcome = "raised"
    /\ ~falsy(order_size)
    /\ calls = <<"compute_order_size", "place_order">>

\* the sizing has answered
Sized == calls # <<>> /\ error # "compute_order_size"

\* C17: for a None signal no collaborator is called; for a sizing that
\* answers None or zero the broker is not called; in both cases nothing is
\* committed and handle_signal returns without raising.
C17_NothingToDo ==
    /\ signal = None =>
          /\ calls = <<>>
          /\ committed = {}
          /\ error = ""
          /\ pc = "finished" => outcome = "returned"
    /\ (Sized /\ (order_size = None \/ order_size = Zero)) =>
          /\ calls = <<"compute_order_size">>
          /\ committed = {}
          /\ error = ""
          /\ pc = "finished"
          /\ outcome = "returned"

\* an EXIT signal with a valid price, sized to zero, has been let go
C17_Witness ==
    /\ signal # None
    /\ signal.signal_type = "EXIT"
    /\ signal.price = float(3)
    /\ portfolio # None
    /\ Sized
    /\ order_size = Zero
    /\ outcome = "returned"

\* C18: once handle_signal has returned or raised, the signal record and the
\* order record are both committed or neither is.
C18_Atomic ==
    pc = "finished" => (("signal" \in committed) <=> ("order" \in committed))

(***************************************************************************)
(* compute_order_size on its own: SpecSizing                               *)
(* One BUY signal with a valid price is sized against a portfolio, a       *)
(* target weight and a last price, all of them floats.                     *)
(***************************************************************************)
SizingPrices == {float(3), float(5), float(7)}

SizingCash == {float(c) : c \in {-4, 0, 1, 7, 10, 17, 20, 25, 31}}

SizingPositions == {<<>>} \cup {<<<<"GGAL", float(q)>>>> : q \in 1..3}

\* none, zero, negative, and eighths up to the whole portfolio
SizingWeights == {<<>>} \cup {<<<<"GGAL", fl(w, -3)>>>> : w \in {-2, 0, 2, 3, 4, 6, 8}}

SizingQuotes == {<<>>} \cup {<<<<"GGAL", p>>>> : p \in {float(3), float(5)}}

InitSizing ==
    /\ NoAnalyzer
    /\ pc = "size"
    /\ signal \in {[symbol |-> "GGAL", signal_type |-> "BUY", price |-> p] :
                     p \in SizingPrices}
    /\ portfolio \in {[cash_balance |-> c, positions |-> ps] :
                        c \in SizingCash, ps \in SizingPositions}
    /\ current_weights \in SizingWeights
    /\ lastest_price \in SizingQuotes
    /\ order_size = None
    /\ calls = <<>>
    /\ error = ""
    /\ committed = {}
    /\ outcome = ""

\* await self.portfolio.compute_order_size(signal), no collaborator raising
Size ==
    /\ pc = "size"
    /\ order_size' = compute_order_size(signal, portfolio, current_weights, lastest_price)
    /\ calls' = Append(calls, "compute_order_size")
    /\ pc' = "size_known"
    /\ UNCHANGED <<analyzer_vars, signal, portfolio, current_weights, lastest_price,
                   error, committed, outcome>>

NextSizing == Size

SpecSizing == InitSizing /\ [][NextSizing]_vars

(***************************************************************************)
(* Claims about compute_order_size (SpecSizing)                            *)
(***************************************************************************)
\* size * price, the number itself: <<m, e>> with a significand of any length
Notional == <<order_size[1] * signal.price[1], order_size[2] + signal.price[2]>>

\* the gap between target value and current position value, as line 118
\* computes it
Gap == value_to_invest(signal, portfolio, current_weights, lastest_price)

\* x <= y * (1 + 8 / 2^MantissaBits) for a number x and a float y > 0
WithinRounding(x, y) ==
    Aligned(x, y).x * Pow2(MantissaBits) <= Aligned(x, y).y * (Pow2(MantissaBits) + 8)

\* line 101, 109, 121, 130: the cases that give no order
NoBuy ==
    \/ fle(calculate_total_value(portfolio, lastest_price), Zero)
    \/ fle(target_weight(signal, current_weights), Zero)
    \/ fle(Gap, Zero)
    \/ fle(portfolio.cash_balance, Zero)

\* C19 as stated: the notional of the size returned exceeds neither the cash
\* nor the gap, and the size is 0 when the cash or the target weight is not
\* positive or the position is at or above target.
C19_NotionalBounded ==
    pc = "size_known" =>
        IF NoBuy THEN order_size = Zero
        ELSE /\ fle(Notional, portfolio.cash_balance)
             /\ fle(Notional, Gap)

\* C19: the size is 0 when the cash or the target weight is not positive or
\* the position is at or above target; otherwise the size is positive and its
\* notional exceeds neither the cash nor the gap by more than the rounding
\* of the six float operations behind it, a relative 8 / 2^MantissaBits.
C19_NotionalBoundedUpToRounding ==
    pc = "size_known" =>
        IF NoBuy THEN order_size = Zero
        ELSE /\ flt(Zero, order_size)
             /\ WithinRounding(Notional, portfolio.cash_balance)
             /\ WithinRounding(Notional, Gap)

\* a size limited by the cash: the gap is larger than the cash
C19_Witness ==
    /\ pc = "size_known"
    /\ ~NoBuy
    /\ flt(portfolio.cash_balance, Gap)
    /\ flt(Zero, order_size)
    /\ portfolio.positions # <<>>

(***************************************************************************)
(* Claims about the sweep and its slots (SpecSticky)                       *)
(***************************************************************************)
\* the zones of the side whose interval holds candle ii, in list order
CoveringZones(side, ii) ==
    SelectSeq(zones, LAMBDA z : z.type = side /\ z.x0 <= ii /\ ii <= z.x1)

\* C24: at every processed candle, after the bucket maintenance, the active
\* list of each side holds the zones of that side of the final zone list
\* with x0 <= i <= x1, each as many times as the list has it, and no other.
C24_SweepRefinesIntervals ==
    Swept >= 1 =>
        \A side \in Sides :
            /\ Len(Active(side)) = Len(CoveringZones(side, i - 1))
            /\ \A j \in 1..Len(zones) :
                  Occurrences(Active(side), zones[j])
                      = Occurrences(CoveringZones(side, i - 1), zones[j])

\* at one candle a zone has ended the candle before, one starts and one
\* goes on
C24_Witness ==
    /\ Swept >= 2
    /\ \E side \in Sides :
          /\ \E j \in 1..Len(zones) : zones[j].type = side /\ zones[j].x1 = i - 2
          /\ \E j \in 1..Len(zones) : zones[j].type = side /\ zones[j].x0 = i - 1
          /\ \E j \in 1..Len(zones) :
                zones[j].type = side /\ zones[j].x0 < i - 1 /\ zones[j].x1 >= i - 1

(***************************************************************************)
(* Claims about the strength of zones (SpecStrength)                       *)
(***************************************************************************)
\* the median close is below 1.00
LowPriced == median2 < 200

\* C25: every zone of the final zone list, base, reversal or merged, has a
\* strength of at least 2 when the median close is below 1.00 and of at
\* least 3 otherwise.
C25_MinStrength ==
    Built => \A j \in 1..Len(zones) :
                zones[j].count >= (IF LowPriced THEN 2 ELSE 3)

\* a median of 1.00 or more: a cluster of two pivots seeded no zone, and the
\* list has a reversal zone and a zone that the merge extended
C25_Witness ==
    /\ Built
    /\ ~LowPriced
    /\ \E j \in 1..Len(clusters.res) : clusters.res[j].count = 2
    /\ \E j \in 1..Len(zones) : zones[j].is_reversal
    /\ \E j \in 1..Len(zones) : \A m \in 1..Len(built_zones) : zones[j] # built_zones[m]

(***************************************************************************)
(* Claims about the hysteresis ratio (SpecHysteresis)                      *)
(***************************************************************************)
\* the run before: the table of the analyzer with the other hysteresis_ratio
Before == runs[1]

\* step 2 of choose_sticky is reached for slot k: a previous value, candidates
\* left, none of them the same level
SwitchAt(side, k) ==
    /\ Swept >= 2
    /\ ~IsNa(Last(side)[k])
    /\ Pool(side)[k] # <<>>
    /\ \A j \in 1..Len(Pool(side)[k]) : ~same_level(Last(side)[k], Pool(side)[k][j].value)

\* the test of line 512 under hysteresis_ratio h, for slot k at the last candle
NotEnough(side, k, h) ==
    100 * Pool(side)[k][1].distance >= (100 - h) * Abs(Last(side)[k] - price(i - 1))

ActiveValues(side) == {Active(side)[j].value : j \in 1..Len(Active(side))}

\* no two distinct active values of the side are the same level
Separated(side) ==
    \A a, b \in ActiveValues(side) : a # b => ~same_level(a, b)

\* slot k held a value at the candle before that is still an active value
StillActive(side, k) ==
    /\ Swept >= 2
    /\ ~IsNa(Last(side)[k])
    /\ Last(side)[k] \in ActiveValues(side)

\* C27: when no two distinct active values of a side are within the level
\* tolerance, a value a slot of the side held at the candle before and that
\* is still the value of an active zone is held at this candle by the same
\* slot or by a lower-numbered one.
C27_NoDropOut ==
    \A side \in Sides : \A k \in Slots :
        (Separated(side) /\ StillActive(side, k))
            => \E j \in 1..k : Prev(side)[j] = Last(side)[k]

\* slot 1 keeps its value although another active value ranks first at this
\* candle
C27_Witness ==
    \E side \in Sides :
        /\ Separated(side)
        /\ StillActive(side, 1)
        /\ Pool(side)[1][1].value # Last(side)[1]
        /\ Prev(side)[1] = Last(side)[1]

(***************************************************************************)
(* Claims about a level and its reversal (SpecMerge)                       *)
(***************************************************************************)
\* r is the reversal zone of base zone b: the level of b on the other side
ReversalOf(r, b) ==
    /\ r.is_reversal
    /\ ~b.is_reversal
    /\ r.value = b.value
    /\ r.type = -b.type

\* C28: in the final zone list every reversal zone starts after the x1 of
\* the base zone it was derived from, so that no candle has a level active
\* as the base zone and as its reversal zone at once.
C28_ReversalAfterBase ==
    Built => \A r, b \in 1..Len(zones) :
                ReversalOf(zones[r], zones[b]) => zones[r].x0 > zones[b].x1

(***************************************************************************)
(* Claims about absent slots (SpecSticky)                                  *)
(***************************************************************************)
\* C29: at every swept candle and on each side the slots that hold a value
\* form a prefix, an absent slot is followed by absent slots only, and the
\* previous-value memory of a slot that is absent at the candle swept last
\* is absent.
C29_SlotPrefix ==
    \A side \in Sides :
        /\ \A r \in 1..Swept : \A k, j \in Slots :
              (IsNa(Out(side)[r][k]) /\ j > k) => IsNa(Out(side)[r][j])
        /\ Swept >= 1 =>
              \A k \in Slots : IsNa(Out(side)[Swept][k]) => IsNa(Prev(side)[k])

\* slot 2 held a value at the candle before and is absent at this one, with
\* its memory absent, while slot 1 holds a value
C29_Witness ==
    /\ Swept >= 2
    /\ cfg.max_zones >= 2
    /\ \E side \in Sides :
          /\ ~IsNa(Last(side)[2])
          /\ ~IsNa(Out(side)[Swept][1])
          /\ IsNa(Out(side)[Swept][2])
          /\ IsNa(Prev(side)[2])

(***************************************************************************)
(* Claims about SELL signals end to end (SpecTrading)                      *)
(***************************************************************************)
\* the quantity of the signal's symbol in the portfolio
Held == get(portfolio.positions, signal.symbol, Zero)

\* a SELL signal with a valid price for a symbol that is held, the sizing
\* answered by PortfolioService, and no collaborator that raised
SellOfHeld ==
    /\ signal # None
    /\ signal.signal_type = "SELL"
    /\ signal.price # None
    /\ flt(Zero, signal.price)
    /\ portfolio # None
    /\ flt(Zero, Held)
    /\ Sized
    /\ order_size = compute_order_size(signal, portfolio, current_weights, lastest_price)
    /\ \A k \in 1..Len(Steps) : error # Steps[k]

\* C30: once handle_signal has finished on a SELL signal with a valid price
\* for a symbol held in quantity q > 0, with no collaborator raising, one
\* SELL order of quantity q has been placed with the broker and its record
\* is committed: OrderDTO accepts the size PortfolioService computed.
C30_SellPlaced ==
    (SellOfHeld /\ pc = "finished") =>
        /\ valid_order(signal, order_size)
        /\ OrderDTO(signal, order_size).side = "SELL"
        /\ OrderDTO(signal, order_size).quantity = Held
        /\ Occurrences(calls, "place_order") = 1
        /\ "order" \in committed
        /\ outcome = "returned"
====
